---- MODULE Spec2Model ----
(***************************************************************************)
(* Verification model of synql: the generation orchestrator               *)
(* (SynQL::generate), the table-list classifier (is_table_list_like) and  *)
(* the check-constraint expression compiler (TranslateExpression).        *)
(***************************************************************************)
EXTENDS Integers, Sequences, FiniteSets, TLC

VARIABLES
    foreign_keys,   \* the schema's foreign keys, as <<host table, referenced table>>
    extension_keys, \* the foreign keys by which a table extends the referenced table
    workspace,      \* Some(the Workspace that generate() built), or None
    root_tables,    \* Some(result of database.root_tables()), None before the first call
    synql,          \* the SynQL struct: deny_list and the generation switches
    pc,             \* position of the running generate()
    dag_iter,       \* the tables the `for table in table_dag()` loop has visited
    cur_table,      \* Some(the table the loop body is working on), or None
    root_iter,      \* the roots the `for root_table in root_tables()` loop has still to visit
    fs,             \* the destination: path -> content
    time_tracker,   \* the report: completed task names and the time they took
    result,         \* "none", "ok" or "err": what generate() returned
    columns,        \* the schema's columns: table -> sequence of columns
    classified,     \* Some(the last answer of is_table_list_like), or None
    check_constraint,    \* the expression of the check constraint being compiled
    nullable_columns,    \* the columns of its table that are nullable
    contextual_columns,  \* the columns to_syn() is told are in the context
    translated,     \* Some(what to_syn() returned), or None
    validated,      \* Some(what the generated validation returned for a row), or None
    primary_key,    \* the columns of the constraint's table that are its primary key
    surrogate_primary_key,  \* whether that primary key is a surrogate key
    validations,    \* Some(the validations generated for a column), or None
    invoked,        \* the calls of extension callbacks made so far, in order
    callback_error, \* Some(the error generate() returned from a callback), or None
    same_as_column, \* the column whose horizontal same-as decorators are generated
    same_as_foreign_keys,  \* its horizontal_same_as_foreign_keys(), in order
    decorators,     \* Some(what generate_horizontal_same_as_decorators gave), or None
    dependency,     \* a TomlDependency under construction
    called,         \* the last operation called on it and whether it gave Ok or Err
    rendered,       \* Some(its rendered form), or None when it was not rendered
    host_column,    \* foreign key -> the column of the host table it lies on
    decorated,      \* Some(the table whose default decorations were generated), or None
    default_decorators  \* the default decorations generated for that table

genvars == <<foreign_keys, extension_keys, workspace, root_tables, synql, pc, dag_iter,
             cur_table, root_iter, fs, time_tracker, result>>

tlvars == <<columns, classified>>

exprvars == <<check_constraint, nullable_columns, contextual_columns, translated, validated,
              primary_key, surrogate_primary_key, validations>>

cbvars == <<invoked, callback_error>>

savars == <<same_as_column, same_as_foreign_keys, decorators>>

depvars == <<dependency, called, rendered>>

dfvars == <<host_column, decorated, default_decorators>>

auxvars == <<savars, depvars, dfvars>>

vars == <<genvars, tlvars, exprvars, cbvars, auxvars>>

----------------------------------------------------------------------------
(* Bounds of the model.                                                    *)

MaxFks == 2        \* foreign keys in a schema
MaxDeny == 2       \* entries of the deny list
MaxElapsed == 1    \* total time the tasks of one run may take
MaxRoots == 2      \* tables that database.root_tables() returns
MaxCallbacks == 2  \* callbacks registered for the modules
MaxSameAs == 2     \* horizontal same-as foreign keys of a column
MaxFeatures == 2   \* features of a dependency

----------------------------------------------------------------------------
(* The schema.                                                             *)

Tables == {"t1", "t2", "t3"}

\* database.tables(): the iteration order of the tables.
tables == <<"t1", "t2", "t3">>

Range(s) == {s[i] : i \in 1..Len(s)}

RECURSIVE Compose(_, _, _)
Compose(R, S, n) ==
    IF n = 0 THEN S
    ELSE Compose(R,
                 S \cup {e \in Tables \X Tables :
                           \E b \in Tables : <<e[1], b>> \in S /\ <<b, e[2]>> \in R},
                 n - 1)

\* The pairs <<a, b>> such that a chain of foreign keys leads from a to b.
Reaches(R) == Compose(R, R, Cardinality(Tables))

\* A foreign key from a table to itself.
is_self_referential(fk) == fk[1] = fk[2]

OrderingEdges(fks) == {fk \in fks : ~is_self_referential(fk)}

Acyclic(fks) == \A t \in Tables : <<t, t>> \notin Reaches(OrderingEdges(fks))

Schemas == {fks \in SUBSET (Tables \X Tables) :
              Cardinality(fks) <= MaxFks /\ Acyclic(fks)}

\* The tables referenced by the foreign keys of a table.
referenced_tables(table) == {fk[2] : fk \in {k \in foreign_keys : k[1] = table}}

RECURSIVE DependsOnVia(_, _, _)
DependsOnVia(table, other, seen) ==
    \/ table = other
    \/ \E t \in referenced_tables(table) \ seen :
          DependsOnVia(t, other, seen \cup {t})

\* table.depends_on(database, other): other is the table itself or is reached
\* from it by a chain of foreign keys.
depends_on(table, other) == DependsOnVia(table, other, {table})

\* database.table_dag(): an iterator that yields every table once, each after
\* the tables it references; a self reference orders nothing. Given the tables
\* yielded so far, the tables that may come next.
table_dag(yielded) ==
    {t \in Tables \ yielded :
       \A fk \in OrderingEdges(foreign_keys) : fk[1] = t => fk[2] \in yielded}

\* table.number_of_columns(database).
number_of_columns(table) == Len(columns[table])

\* table.ancestral_extended_tables(database): the tables that the table
\* extends, directly or through other tables.
ancestral_extended_tables(table) ==
    {t \in Tables \ {table} : <<table, t>> \in Reaches(OrderingEdges(extension_keys))}

\* database.catalog_name().
catalog_name == <<"d", "b">>

----------------------------------------------------------------------------
(* SynQL.                                                                  *)

RECURSIVE skip_table_from(_, _)
skip_table_from(table, i) ==
    IF i > Len(synql.deny_list) THEN FALSE
    ELSE IF depends_on(table, synql.deny_list[i]) THEN TRUE
    ELSE skip_table_from(table, i + 1)

\* The loop stops at the first deny entry, whether it matches or not.
skip_table_first_entry(table) ==
    Len(synql.deny_list) > 0 /\ depends_on(table, synql.deny_list[1])

\* Only the tables of the deny list themselves are skipped.
skip_table_listed_only(table) ==
    \E i \in 1..Len(synql.deny_list) : table = synql.deny_list[i]

\* Lines 88-95.
skip_table(table) == skip_table_from(table, 1)


None == <<>>
Some(x) == <<x>>

\* A name is a sequence of characters.
ValidName == <<"w", "s">>

Configurations ==
    [name : {Some(ValidName)},
     deny_list : {d \in UNION {[1..n -> Tables] : n \in 0..MaxDeny} :
                    \A i, j \in 1..Len(d) : i # j => d[i] # d[j]},
     clear_existing : BOOLEAN,
     sink_crate_name : {None, Some("sink")},
     dag_sink_crate_prefix : {None, Some("dag_")},
     generate_workspace_toml : BOOLEAN,
     generate_rustfmt : BOOLEAN,
     members : {<<>>},
     callbacks : {<<>>},
     toml_callbacks : {<<>>}]

\* Paths below the workspace path.
crate_absolute_path(table) == <<"crates", table>>
crate_toml_path(table) == <<"crates", table, "Cargo.toml">>
crate_lib_path(table) == <<"crates", table, "src", "lib.rs">>
sink_crate_path(name) == <<"sinks">> \o name
sink_toml_path(name) == sink_crate_path(name) \o <<"Cargo.toml">>
sink_lib_path(name) == sink_crate_path(name) \o <<"src", "lib.rs">>
workspace_toml_path == <<"Cargo.toml">>
rustfmt_path == <<"rustfmt.toml">>

EmptyFs == [p \in {} |-> <<>>]

\* std::fs::File::create + write: the file at path holds content afterwards.
Write(files, path, content) ==
    [p \in DOMAIN files \cup {path} |-> IF p = path THEN content ELSE files[p]]

\* std::fs::create_dir_all: an existing directory is left as it is.
CreateDirAll(files, path) ==
    IF path \in DOMAIN files THEN files ELSE Write(files, path, <<"dir">>)

\* The admitted tables in the order of database.tables().
AdmittedTables == SelectSeq(tables, LAMBDA t : ~skip_table(t))

\* The tables of the DAG rooted at root_table.
dag_tables(root_table) ==
    SelectSeq(tables, LAMBDA t : t = root_table \/ depends_on(t, root_table))

\* The extension callbacks: what a callback returns for a table, which is
\* Ok(Some(code or dependency)), Ok(None) or Err(error).
Callbacks == {"gives_a", "gives_b", "gives_none", "fails_e1", "fails_e2"}
call(callback, table) ==
    CASE callback = "gives_a" -> [kind |-> "Ok", value |-> Some(<<"a", table>>)]
      [] callback = "gives_b" -> [kind |-> "Ok", value |-> Some(<<"b", table>>)]
      [] callback = "gives_none" -> [kind |-> "Ok", value |-> None]
      [] callback = "fails_e1" -> [kind |-> "Err", error |-> "e1"]
      [] callback = "fails_e2" -> [kind |-> "Err", error |-> "e2"]

\* Every callback is called, and the last error is the one returned.
RECURSIVE run_callbacks_to_the_end_from(_, _, _, _)
run_callbacks_to_the_end_from(callbacks, table, i, acc) ==
    IF i > Len(callbacks) THEN acc
    ELSE LET r == call(callbacks[i], table) IN
         run_callbacks_to_the_end_from(callbacks, table, i + 1,
             IF r.kind = "Err" THEN [kind |-> "Err", error |-> r.error, calls |-> i]
             ELSE IF acc.kind = "Err" THEN [acc EXCEPT !.calls = i]
             ELSE [kind |-> "Ok", value |-> acc.value \o r.value, calls |-> i])
run_callbacks_to_the_end(callbacks, table) ==
    run_callbacks_to_the_end_from(callbacks, table, 1,
                                  [kind |-> "Ok", value |-> <<>>, calls |-> 0])

\* The callbacks are called in the order of the list; what they return is
\* collected; the first error is returned at once. `calls` is the number of
\* callbacks that were called.
RECURSIVE run_callbacks_from(_, _, _, _)
run_callbacks_from(callbacks, table, i, acc) ==
    IF i > Len(callbacks) THEN [kind |-> "Ok", value |-> acc, calls |-> Len(callbacks)]
    ELSE LET r == call(callbacks[i], table) IN
         IF r.kind = "Err" THEN [kind |-> "Err", error |-> r.error, calls |-> i]
         ELSE run_callbacks_from(callbacks, table, i + 1, acc \o r.value)
run_callbacks(callbacks, table) == run_callbacks_from(callbacks, table, 1, <<>>)

\* The calls a step makes: the first n callbacks of a kind, for a table.
Calls(kind, table, n) == [i \in 1..n |-> <<kind, table, i>>]

\* The manifest fragment and the module of one table crate, with what the
\* callbacks contributed.
write_crate_toml(table) ==
    <<"crate_toml", table>> \o run_callbacks(synql.toml_callbacks, table).value
write_crate_lib(table) ==
    <<"crate_lib", table>> \o run_callbacks(synql.callbacks, table).value

\* A manifest with one dependency for every table, skipped or not.
write_sink_crate_toml_every_table(sink_crate_name, sink_tables) ==
    [name |-> sink_crate_name, dependencies |-> tables]

\* A module with one re-export for every table it is given, skipped or not.
write_sink_crate_lib_given_tables(sink_crate_name, sink_tables) ==
    [name |-> sink_crate_name, re_exports |-> sink_tables]

\* The manifest and the module of a sink crate: one dependency and one
\* re-export for every table of database.tables() that is not skipped.
write_sink_crate_toml(sink_crate_name, sink_tables) ==
    [name |-> sink_crate_name, dependencies |-> AdmittedTables]
write_sink_crate_lib(sink_crate_name, sink_tables) ==
    [name |-> sink_crate_name, re_exports |-> AdmittedTables]

\* The name of the sink crate of the DAG rooted at a table.
dag_sink_crate_name(root_table) == <<synql.dag_sink_crate_prefix[1], root_table>>

\* database.root_tables() in iteration order.
RootTablesSeq(roots) == SelectSeq(tables, LAMBDA t : t \in roots)

\* The workspace manifest, with the time spent so far written into it.
write_toml_stamped == [members |-> <<>>, dependencies |-> <<>>,
                       elapsed |-> time_tracker.elapsed]

\* member.get_path() of every additional member; a member is modelled by
\* the path it was given, if any.
member_paths == [i \in 1..Len(synql.members) |-> synql.members[i][1]]

\* The first additional member that has no path, or 0.
first_member_without_path ==
    IF \A i \in 1..Len(synql.members) : synql.members[i] # None THEN 0
    ELSE CHOOSE i \in 1..Len(synql.members) :
           /\ synql.members[i] = None
           /\ \A j \in 1..(i - 1) : synql.members[j] # None

\* What write_toml leaves in the file when it returns the error "Workspace
\* member MUST start with a path": the members written before that one.
write_toml_truncated ==
    [members |-> [i \in 1..(first_member_without_path - 1) |-> synql.members[i][1]],
     truncated |-> TRUE]

\* A workspace manifest that lists the additional members and the tables.
write_toml_without_sinks ==
    [members |->
        member_paths
        \o [i \in 1..Len(AdmittedTables) |-> crate_absolute_path(AdmittedTables[i])],
     dependencies |-> AdmittedTables]

\* The workspace manifest; the roots are those database.root_tables() gave
\* the loop over the roots, none when that loop was never entered.
write_toml ==
    [members |->
        member_paths
        \o [i \in 1..Len(AdmittedTables) |-> crate_absolute_path(AdmittedTables[i])]
        \o (IF synql.sink_crate_name # None
            THEN <<sink_crate_path(synql.sink_crate_name)>> ELSE <<>>)
        \o (IF synql.dag_sink_crate_prefix # None
            THEN LET rs == SelectSeq(IF root_tables = None THEN <<>>
                                     ELSE RootTablesSeq(root_tables[1]),
                                     LAMBDA t : ~skip_table(t))
                 IN [i \in 1..Len(rs) |-> sink_crate_path(dag_sink_crate_name(rs[i]))]
            ELSE <<>>),
     dependencies |-> AdmittedTables]

\* The formatting configuration.
write_rustfmt == <<"rustfmt">>

----------------------------------------------------------------------------
(* generate(), one action for each effect on the destination.              *)

AfterToml == IF synql.generate_rustfmt THEN "rustfmt" ELSE "done"
AfterDagSinks == IF synql.generate_workspace_toml THEN "workspace_toml" ELSE AfterToml
AfterSink == IF synql.dag_sink_crate_prefix # None THEN "dag_query" ELSE AfterDagSinks
\* The workspace manifest straight after the tables, before the sink crates.
AfterTables_manifest_first == AfterDagSinks
AfterTables == IF synql.sink_crate_name # None THEN "sink" ELSE AfterSink
AfterTable(yielded) == IF yielded = Tables THEN AfterTables ELSE "tables"
\* The loop over the roots left before its first root.
AfterRoot_no_loop(rest) == AfterDagSinks
AfterRoot(rest) == IF rest = <<>> THEN AfterDagSinks ELSE "dag"

ResultAt(next) == IF next = "done" THEN "ok" ELSE result

NewTimeTracker == [tasks |-> {}, elapsed |-> 0]

\* Task::new ... add_or_extend_completed_task: the task took d units of time.
Durations == {d \in 0..MaxElapsed : time_tracker.elapsed + d <= MaxElapsed}
CompletedTask(name, d) ==
    [tasks |-> time_tracker.tasks \cup {name}, elapsed |-> time_tracker.elapsed + d]

\* The tables generate() may visit next: in the order of database.tables().
generate_table_iter_tables(yielded) ==
    {tables[i] : i \in {i \in 1..Len(tables) :
                          /\ tables[i] \notin yielded
                          /\ \A j \in 1..(i - 1) : tables[j] \in yielded}}

\* The tables generate() may visit next: line 308 iterates table_dag().
generate_table_iter(yielded) == table_dag(yielded)

\* The failure with what the run has written taken back.
Fail_rollback ==
    /\ pc' = "done"
    /\ result' = "err"
    /\ dag_iter' = {}
    /\ cur_table' = None
    /\ root_iter' = <<>>
    /\ time_tracker' = NewTimeTracker
    /\ fs' = EmptyFs
    /\ UNCHANGED <<foreign_keys, extension_keys, workspace, root_tables, synql>>

\* An I/O operation fails: generate() returns the error at once, its locals
\* (the iterators, the report) are dropped, the destination stays as it is.
Fail ==
    /\ pc' = "done"
    /\ result' = "err"
    /\ dag_iter' = {}
    /\ cur_table' = None
    /\ root_iter' = <<>>
    /\ time_tracker' = NewTimeTracker
    /\ UNCHANGED <<foreign_keys, extension_keys, workspace, root_tables, synql, fs>>

\* generate() panics: the stack unwinds, the destination stays as it is.
Unwind ==
    /\ pc' = "done"
    /\ result' = "panic"
    /\ dag_iter' = {}
    /\ cur_table' = None
    /\ root_iter' = <<>>
    /\ time_tracker' = NewTimeTracker
    /\ UNCHANGED <<foreign_keys, extension_keys, workspace, root_tables, synql, fs>>

Goto(next) == pc' = next /\ result' = ResultAt(next)

\* The tiers with every upper bound one column too low.
try_from_exclusive(value) ==
    CASE value \in 0..15 -> [kind |-> "Ok", value |-> "Columns16"]
      [] value \in 16..31 -> [kind |-> "Ok", value |-> "Columns32"]
      [] value \in 32..63 -> [kind |-> "Ok", value |-> "Columns64"]
      [] value \in 64..127 -> [kind |-> "Ok", value |-> "Columns128"]
      [] OTHER -> [kind |-> "Err", error |-> <<"TooManyColumns", value>>]

\* TryFrom<usize> for MaximalNumberOfColumns.
try_from(value) ==
    CASE value \in 0..16 -> [kind |-> "Ok", value |-> "Columns16"]
      [] value \in 17..32 -> [kind |-> "Ok", value |-> "Columns32"]
      [] value \in 33..64 -> [kind |-> "Ok", value |-> "Columns64"]
      [] value \in 65..128 -> [kind |-> "Ok", value |-> "Columns128"]
      [] OTHER -> [kind |-> "Err", error |-> <<"TooManyColumns", value>>]

\* Iterator::max().unwrap_or(0).
max_unwrap_or_0(values) ==
    IF values = {} THEN 0 ELSE CHOOSE x \in values : \A y \in values : y <= x

\* Iterator::sum() of the column counts of some tables.
RECURSIVE sum_number_of_columns(_)
sum_number_of_columns(ts) ==
    IF ts = {} THEN 0
    ELSE LET t == CHOOSE x \in ts : TRUE
         IN number_of_columns(t) + sum_number_of_columns(ts \ {t})

\* Lines 233-245.
maximum_number_of_columns ==
    try_from(max_unwrap_or_0({number_of_columns(t) : t \in {x \in Tables : ~skip_table(x)}}))

\* Lines 247-266.
maximum_number_of_columns_in_hierarchy ==
    try_from(max_unwrap_or_0(
        {sum_number_of_columns(ancestral_extended_tables(t)) + number_of_columns(t) :
           t \in {x \in Tables : ~skip_table(x)}}))

\* WorkspaceBuilder::name: a name that is blank or holds a space is refused.
workspace_builder_name(name) ==
    IF (\A i \in 1..Len(name) : name[i] \in {" ", "\t", "\n"})
         \/ (\E i \in 1..Len(name) : name[i] = " ")
    THEN [kind |-> "Err", error |-> "InvalidName"]
    ELSE [kind |-> "Ok", value |-> name]

\* Lines 233-288: the column maxima and the Workspace. `?` returns the error
\* of try_into(); expect() panics on the error of name().
Configure ==
    /\ pc = "new"
    /\ UNCHANGED <<tlvars, exprvars, cbvars, auxvars>>
    /\ LET name == workspace_builder_name(IF synql.name # None THEN synql.name[1]
                                          ELSE catalog_name)
       IN IF maximum_number_of_columns.kind = "Err" THEN Fail
          ELSE IF maximum_number_of_columns_in_hierarchy.kind = "Err" THEN Fail
          ELSE IF name.kind = "Err" THEN Unwind
          ELSE /\ workspace' =
                    Some([name |-> name.value,
                          postgis_diesel |-> maximum_number_of_columns.value,
                          diesel_builders |-> maximum_number_of_columns_in_hierarchy.value])
               /\ pc' = "clear"
               /\ UNCHANGED <<foreign_keys, extension_keys, root_tables, synql, dag_iter,
                              cur_table, root_iter, fs, time_tracker, result>>

\* Lines 289-308: clear the destination, start the report and the table loop.
ClearExisting ==
    /\ pc = "clear"
    /\ UNCHANGED <<tlvars, exprvars, cbvars, auxvars>>
    /\ \/ /\ fs' = IF synql.clear_existing THEN EmptyFs ELSE fs
          /\ time_tracker' = NewTimeTracker
          /\ pc' = "tables"
          /\ UNCHANGED <<foreign_keys, extension_keys, workspace, root_tables, synql,
                         dag_iter, cur_table, root_iter,
                         result>>
       \/ synql.clear_existing /\ DOMAIN fs # {} /\ Fail

\* Lines 308-311: the loop yields a skipped table.
SkipTable ==
    /\ pc = "tables"
    /\ UNCHANGED <<tlvars, exprvars, cbvars, auxvars>>
    /\ \E t \in generate_table_iter(dag_iter) :
         /\ skip_table(t)
         /\ dag_iter' = dag_iter \cup {t}
         /\ Goto(AfterTable(dag_iter \cup {t}))
    /\ UNCHANGED <<foreign_keys, extension_keys, workspace, root_tables, synql,
                   cur_table, root_iter, fs,
                   time_tracker>>

\* Lines 308-315: the loop yields an admitted table; the directory of its crate.
CreateCrateDir ==
    /\ pc = "tables"
    /\ UNCHANGED <<tlvars, exprvars, cbvars, auxvars>>
    /\ \E t \in generate_table_iter(dag_iter) :
         /\ ~skip_table(t)
         /\ \/ /\ fs' = CreateDirAll(fs, crate_absolute_path(t))
               /\ dag_iter' = dag_iter \cup {t}
               /\ cur_table' = Some(t)
               /\ pc' = "crate_toml"
               /\ UNCHANGED <<foreign_keys, extension_keys, workspace, root_tables,
                              synql, root_iter,
                              time_tracker, result>>
            \/ Fail

\* Lines 317-319.
WriteCrateToml ==
    /\ pc = "crate_toml"
    /\ UNCHANGED <<tlvars, exprvars, auxvars>>
    /\ LET ran == run_callbacks(synql.toml_callbacks, cur_table[1]) IN
       \/ \E d \in Durations :
            /\ ran.kind = "Ok"
            /\ invoked' = invoked \o Calls("toml_callback", cur_table[1], ran.calls)
            /\ fs' = Write(fs, crate_toml_path(cur_table[1]), write_crate_toml(cur_table[1]))
            /\ time_tracker' = CompletedTask(<<"writing_crate_toml">>, d)
            /\ pc' = "crate_lib"
            /\ UNCHANGED <<foreign_keys, extension_keys, workspace, root_tables, synql,
                           dag_iter, cur_table,
                           root_iter, result, callback_error>>
       \/ /\ ran.kind = "Err"
          /\ invoked' = invoked \o Calls("toml_callback", cur_table[1], ran.calls)
          /\ callback_error' = Some(ran.error)
          /\ Fail
       \/ Fail /\ UNCHANGED cbvars

\* Lines 320-323.
WriteCrateLib ==
    /\ pc = "crate_lib"
    /\ UNCHANGED <<tlvars, exprvars, auxvars>>
    /\ LET ran == run_callbacks(synql.callbacks, cur_table[1]) IN
       \/ \E d \in Durations :
            /\ ran.kind = "Ok"
            /\ invoked' = invoked \o Calls("callback", cur_table[1], ran.calls)
            /\ fs' = Write(fs, crate_lib_path(cur_table[1]), write_crate_lib(cur_table[1]))
            /\ time_tracker' = CompletedTask(<<"writing_crate_lib">>, d)
            /\ cur_table' = None
            /\ Goto(AfterTable(dag_iter))
            /\ UNCHANGED <<foreign_keys, extension_keys, workspace, root_tables, synql,
                           dag_iter, root_iter, callback_error>>
       \/ /\ ran.kind = "Err"
          /\ invoked' = invoked \o Calls("callback", cur_table[1], ran.calls)
          /\ callback_error' = Some(ran.error)
          /\ Fail
       \/ Fail /\ UNCHANGED cbvars

\* Lines 325-328: the directory of the sink crate.
CreateSinkDir ==
    /\ pc = "sink"
    /\ UNCHANGED <<tlvars, exprvars, cbvars, auxvars>>
    /\ \/ /\ fs' = CreateDirAll(fs, sink_crate_path(synql.sink_crate_name))
          /\ pc' = "sink_toml"
          /\ UNCHANGED <<foreign_keys, extension_keys, workspace, root_tables, synql,
                         dag_iter, cur_table, root_iter,
                         time_tracker, result>>
       \/ Fail

\* Lines 330-337.
WriteSinkToml ==
    /\ pc = "sink_toml"
    /\ UNCHANGED <<tlvars, exprvars, cbvars, auxvars>>
    /\ \/ \E d \in Durations :
            /\ fs' = Write(fs, sink_toml_path(synql.sink_crate_name),
                           write_sink_crate_toml(synql.sink_crate_name, tables))
            /\ time_tracker' = CompletedTask(<<"writing_sink_crate_toml">>, d)
            /\ pc' = "sink_lib"
            /\ UNCHANGED <<foreign_keys, extension_keys, workspace, root_tables, synql,
                           dag_iter, cur_table,
                           root_iter, result>>
       \/ Fail

\* Lines 339-347.
WriteSinkLib ==
    /\ pc = "sink_lib"
    /\ UNCHANGED <<tlvars, exprvars, cbvars, auxvars>>
    /\ \/ \E d \in Durations :
            /\ fs' = Write(fs, sink_lib_path(synql.sink_crate_name),
                           write_sink_crate_lib(synql.sink_crate_name, tables))
            /\ time_tracker' = CompletedTask(<<"writing_sink_crate_lib">>, d)
            /\ Goto(AfterSink)
            /\ UNCHANGED <<foreign_keys, extension_keys, workspace, root_tables, synql,
                           dag_iter, cur_table,
                           root_iter>>
       \/ Fail

\* Line 350: database.root_tables().
QueryRootTables ==
    /\ pc = "dag_query"
    /\ UNCHANGED <<tlvars, exprvars, cbvars, auxvars>>
    /\ \E roots \in {r \in SUBSET Tables : Cardinality(r) <= MaxRoots} :
         /\ root_tables' = Some(roots)
         /\ root_iter' = RootTablesSeq(roots)
         /\ Goto(AfterRoot(RootTablesSeq(roots)))
    /\ UNCHANGED <<foreign_keys, extension_keys, workspace, synql, dag_iter, cur_table,
                   fs, time_tracker>>

\* Lines 351-353: a skipped root.
SkipRoot ==
    /\ pc = "dag" /\ root_iter # <<>> /\ skip_table(Head(root_iter))
    /\ UNCHANGED <<tlvars, exprvars, cbvars, auxvars>>
    /\ root_iter' = Tail(root_iter)
    /\ Goto(AfterRoot(Tail(root_iter)))
    /\ UNCHANGED <<foreign_keys, extension_keys, workspace, root_tables, synql, dag_iter,
                   cur_table, fs,
                   time_tracker>>

\* Lines 354-358: the directory of the root's sink crate.
CreateDagSinkDir ==
    /\ pc = "dag" /\ root_iter # <<>> /\ ~skip_table(Head(root_iter))
    /\ UNCHANGED <<tlvars, exprvars, cbvars, auxvars>>
    /\ \/ /\ fs' = CreateDirAll(fs, sink_crate_path(dag_sink_crate_name(Head(root_iter))))
          /\ pc' = "dag_toml"
          /\ UNCHANGED <<foreign_keys, extension_keys, workspace, root_tables, synql,
                         dag_iter, cur_table, root_iter,
                         time_tracker, result>>
       \/ Fail

\* Lines 368-376.
WriteDagSinkToml ==
    /\ pc = "dag_toml"
    /\ UNCHANGED <<tlvars, exprvars, cbvars, auxvars>>
    /\ \/ \E d \in Durations :
            LET name == dag_sink_crate_name(Head(root_iter)) IN
            /\ fs' = Write(fs, sink_toml_path(name),
                           write_sink_crate_toml(name, dag_tables(Head(root_iter))))
            /\ time_tracker' = CompletedTask(<<"writing_sink_crate_toml">> \o name, d)
            /\ pc' = "dag_lib"
            /\ UNCHANGED <<foreign_keys, extension_keys, workspace, root_tables, synql,
                           dag_iter, cur_table,
                           root_iter, result>>
       \/ Fail

\* Lines 378-387.
WriteDagSinkLib ==
    /\ pc = "dag_lib"
    /\ UNCHANGED <<tlvars, exprvars, cbvars, auxvars>>
    /\ \/ \E d \in Durations :
            LET name == dag_sink_crate_name(Head(root_iter)) IN
            /\ fs' = Write(fs, sink_lib_path(name),
                           write_sink_crate_lib(name, dag_tables(Head(root_iter))))
            /\ time_tracker' = CompletedTask(<<"writing_sink_crate_lib">> \o name, d)
            /\ root_iter' = Tail(root_iter)
            /\ Goto(AfterRoot(Tail(root_iter)))
            /\ UNCHANGED <<foreign_keys, extension_keys, workspace, root_tables, synql,
                           dag_iter, cur_table>>
       \/ Fail

\* Lines 390-394.
WriteWorkspaceToml ==
    /\ pc = "workspace_toml"
    /\ UNCHANGED <<tlvars, exprvars, cbvars, auxvars>>
    /\ \/ \E d \in Durations :
            /\ first_member_without_path = 0
            /\ fs' = Write(fs, workspace_toml_path, write_toml)
            /\ time_tracker' = CompletedTask(<<"workspace_toml">>, d)
            /\ Goto(AfterToml)
            /\ UNCHANGED <<foreign_keys, extension_keys, workspace, root_tables, synql,
                           dag_iter, cur_table,
                           root_iter>>
       \/ /\ first_member_without_path # 0
          /\ fs' = Write(fs, workspace_toml_path, write_toml_truncated)
          /\ pc' = "done"
          /\ result' = "err"
          /\ dag_iter' = {}
          /\ cur_table' = None
          /\ root_iter' = <<>>
          /\ time_tracker' = NewTimeTracker
          /\ UNCHANGED <<foreign_keys, extension_keys, workspace, root_tables, synql>>
       \/ Fail

\* Lines 396-402.
WriteRustfmt ==
    /\ pc = "rustfmt"
    /\ UNCHANGED <<tlvars, exprvars, cbvars, auxvars>>
    /\ \/ \E d \in Durations :
            /\ fs' = Write(fs, rustfmt_path, write_rustfmt)
            /\ time_tracker' = CompletedTask(<<"workspace_rustfmt">>, d)
            /\ Goto("done")
            /\ UNCHANGED <<foreign_keys, extension_keys, workspace, root_tables, synql,
                           dag_iter, cur_table,
                           root_iter>>
       \/ Fail

\* SynQLBuilder::new: nothing denied, nothing optional switched on.
DefaultSynQL ==
    [name |-> None, deny_list |-> <<>>, clear_existing |-> FALSE, sink_crate_name |-> None,
     dag_sink_crate_prefix |-> None, generate_workspace_toml |-> FALSE,
     generate_rustfmt |-> FALSE, members |-> <<>>, callbacks |-> <<>>,
     toml_callbacks |-> <<>>]

\* A column: whether it belongs to the primary key, whether its type is textual.
Column == [primary_key : BOOLEAN, textual : BOOLEAN]

\* `id INT PRIMARY KEY`.
IdColumn == [primary_key |-> TRUE, textual |-> FALSE]

\* No table is being classified.
IdleClassifier ==
    /\ columns = [t \in Tables |-> <<IdColumn>>]
    /\ classified = None

\* No check constraint is being compiled.
IdleCompiler ==
    /\ check_constraint = None
    /\ nullable_columns = {}
    /\ contextual_columns = {}
    /\ translated = None
    /\ validated = None
    /\ primary_key = {}
    /\ surrogate_primary_key = FALSE
    /\ validations = None

\* No decorator is being generated.
IdleSameAs ==
    /\ same_as_column = None
    /\ same_as_foreign_keys = <<>>
    /\ decorators = None

\* No dependency is under construction.
IdleTomlDependency ==
    /\ dependency = None
    /\ called = None
    /\ rendered = None

\* No default decoration is being generated.
IdleDefaults ==
    /\ host_column = <<>>
    /\ decorated = None
    /\ default_decorators = {}

IdleAux == IdleSameAs /\ IdleTomlDependency /\ IdleDefaults

\* No callback has been called.
IdleCallbacks ==
    /\ invoked = <<>>
    /\ callback_error = None

\* generate() has not been called.
IdleGenerate ==
    /\ IdleCallbacks
    /\ synql = DefaultSynQL
    /\ extension_keys = {}
    /\ workspace = None
    /\ pc = "new"
    /\ dag_iter = {}
    /\ cur_table = None
    /\ root_iter = <<>>
    /\ fs = EmptyFs
    /\ time_tracker = NewTimeTracker
    /\ result = "none"

\* What the destination holds before generate() is called: a file left there
\* by something else.
StaleFs == Write(EmptyFs, <<"stale">>, <<"stale">>)

Init ==
    /\ foreign_keys \in Schemas
    /\ extension_keys = {}
    /\ workspace = None
    /\ root_tables = None
    /\ synql \in Configurations
    /\ pc = "new"
    /\ dag_iter = {}
    /\ cur_table = None
    /\ root_iter = <<>>
    /\ fs = StaleFs
    /\ time_tracker = NewTimeTracker
    /\ result = "none"
    /\ IdleClassifier
    /\ IdleCompiler
    /\ IdleCallbacks
    /\ IdleAux

Next ==
    \/ Configure
    \/ ClearExisting
    \/ SkipTable
    \/ CreateCrateDir
    \/ WriteCrateToml
    \/ WriteCrateLib
    \/ CreateSinkDir
    \/ WriteSinkToml
    \/ WriteSinkLib
    \/ QueryRootTables
    \/ SkipRoot
    \/ CreateDagSinkDir
    \/ WriteDagSinkToml
    \/ WriteDagSinkLib
    \/ WriteWorkspaceToml
    \/ WriteRustfmt

Spec == Init /\ [][Next]_vars

\* The column counts of a table: around the bounds of every tier.
ColumnCounts == {1, 16, 17, 32, 33, 64, 65, 128, 129}

\* A table of n columns.
ColumnsOfCount(n) == [i \in 1..n |-> IdColumn]

\* The workspace names: none (the catalog name is taken), the empty one and
\* one with a space.
Names == {None, Some(<<>>), Some(<<"w", " ", "s">>)}

\* generate() on schemas of tables of many columns, with the destination
\* cleared and every optional step switched on.
InitConfigure ==
    /\ foreign_keys \in {fks \in Schemas : Cardinality(fks) <= 1}
    /\ extension_keys \in SUBSET foreign_keys
    /\ workspace = None
    /\ root_tables = None
    /\ synql \in [name : Names,
                  deny_list : {<<>>} \cup {<<t>> : t \in Tables},
                  clear_existing : {TRUE},
                  sink_crate_name : {Some("sink")},
                  dag_sink_crate_prefix : {Some("dag_")},
                  generate_workspace_toml : {TRUE},
                  generate_rustfmt : {TRUE},
                  members : {<<>>},
                  callbacks : {<<>>},
                  toml_callbacks : {<<>>}]
    /\ pc = "new"
    /\ dag_iter = {}
    /\ cur_table = None
    /\ root_iter = <<>>
    /\ fs = StaleFs
    /\ time_tracker = NewTimeTracker
    /\ result = "none"
    /\ columns \in {[t \in Tables |-> ColumnsOfCount(IF t = "t1" THEN n1
                                                     ELSE IF t = "t2" THEN n2 ELSE 1)] :
                       n1 \in ColumnCounts, n2 \in {1, 16, 64}}
    /\ classified = None
    /\ IdleCompiler
    /\ IdleCallbacks
    /\ IdleAux

SpecConfigure == InitConfigure /\ [][Next]_vars

\* The additional members of a workspace: none, one, two, and one that has
\* no path after one that has.
Members ==
    {<<>>, <<Some(<<"ext", "m1">>)>>, <<Some(<<"ext", "m1">>), Some(<<"ext", "m2">>)>>,
     <<Some(<<"ext", "m1">>), None>>}

\* generate() with the workspace manifest switched on and additional
\* members, the destination cleared first.
InitManifest ==
    /\ foreign_keys \in Schemas
    /\ extension_keys = {}
    /\ workspace = None
    /\ root_tables = None
    /\ synql \in [name : {Some(ValidName)},
                  deny_list : {<<>>} \cup {<<t>> : t \in Tables},
                  clear_existing : {TRUE},
                  sink_crate_name : {None, Some("sink")},
                  dag_sink_crate_prefix : {None, Some("dag_")},
                  generate_workspace_toml : {TRUE},
                  generate_rustfmt : {TRUE},
                  members : Members,
                  callbacks : {<<>>},
                  toml_callbacks : {<<>>}]
    /\ pc = "new"
    /\ dag_iter = {}
    /\ cur_table = None
    /\ root_iter = <<>>
    /\ fs = StaleFs
    /\ time_tracker = NewTimeTracker
    /\ result = "none"
    /\ IdleClassifier
    /\ IdleCompiler
    /\ IdleCallbacks
    /\ IdleAux

SpecManifest == InitManifest /\ [][Next]_vars

\* The lists of callbacks a configuration may hold.
CallbackLists == UNION {[1..n -> Callbacks] : n \in 0..MaxCallbacks}

\* generate() with extension callbacks registered, and nothing but the
\* table crates to emit.
InitCallbacks ==
    /\ foreign_keys \in {fks \in Schemas : Cardinality(fks) <= 1}
    /\ extension_keys = {}
    /\ workspace = None
    /\ root_tables = None
    /\ synql \in [name : {Some(ValidName)},
                  deny_list : {<<>>, <<"t1">>},
                  clear_existing : {FALSE},
                  sink_crate_name : {Some("sink")},
                  dag_sink_crate_prefix : {Some("dag_")},
                  generate_workspace_toml : {TRUE},
                  generate_rustfmt : {TRUE},
                  members : {<<>>},
                  callbacks : CallbackLists,
                  toml_callbacks : {<<>>, <<"gives_b">>, <<"fails_e2">>}]
    /\ pc = "new"
    /\ dag_iter = {}
    /\ cur_table = None
    /\ root_iter = <<>>
    /\ fs = StaleFs
    /\ time_tracker = NewTimeTracker
    /\ result = "none"
    /\ IdleClassifier
    /\ IdleCompiler
    /\ IdleCallbacks
    /\ IdleAux

SpecCallbacks == InitCallbacks /\ [][Next]_vars

----------------------------------------------------------------------------
(* Claims about generate().                                                *)

CratePaths(t) == {crate_absolute_path(t), crate_toml_path(t), crate_lib_path(t)}

CrateStarted(t) == CratePaths(t) \cap DOMAIN fs # {}
CrateEmitted(t) == CratePaths(t) \subseteq DOMAIN fs

\* The tables that are on the deny list or reach a table of it by foreign keys.
RECURSIVE ReachableFrom(_, _)
ReachableFrom(S, n) ==
    IF n = 0 THEN S
    ELSE ReachableFrom(S \cup {fk[2] : fk \in {k \in foreign_keys : k[1] \in S}}, n - 1)

\* The tables a table reaches by chains of foreign keys, itself included.
Ancestors(t) == ReachableFrom({t}, Cardinality(Tables))

DeniedSubtree == {t \in Tables : Ancestors(t) \cap Range(synql.deny_list) # {}}

C2_ReferencedTablesEmittedFirst ==
    /\ \A t \in Tables :
         CrateStarted(t) => \A r \in referenced_tables(t) \ {t} : CrateEmitted(r)
    /\ (pc = "done" /\ result = "ok") =>
         \A t \in Tables \ DeniedSubtree : CrateEmitted(t)

\* A table that references itself and a table that comes later in
\* database.tables() has been emitted.
C2_Witness ==
    /\ pc = "done" /\ result = "ok"
    /\ <<"t1", "t1">> \in foreign_keys
    /\ <<"t1", "t3">> \in foreign_keys
    /\ CrateEmitted("t1")

RECURSIVE WriteTableCrates(_, _)
WriteTableCrates(files, ts) ==
    IF ts = <<>> THEN files
    ELSE LET t == Head(ts)
         IN WriteTableCrates(
                Write(Write(CreateDirAll(files, crate_absolute_path(t)),
                            crate_toml_path(t), write_crate_toml(t)),
                      crate_lib_path(t), write_crate_lib(t)),
                Tail(ts))

RECURSIVE WriteSinkCrates(_, _)
WriteSinkCrates(files, sinks) ==
    IF sinks = <<>> THEN files
    ELSE LET name == Head(sinks)[1]
             of == Head(sinks)[2]
         IN WriteSinkCrates(
                Write(Write(CreateDirAll(files, sink_crate_path(name)),
                            sink_toml_path(name), write_sink_crate_toml(name, of)),
                      sink_lib_path(name), write_sink_crate_lib(name, of)),
                Tail(sinks))

\* What a successful run writes, computed from the schema and the configuration.
GeneratedOutput ==
    LET admitted == SelectSeq(tables, LAMBDA t : t \notin DeniedSubtree)
        f1 == WriteTableCrates(EmptyFs, admitted)
        f2 == IF synql.sink_crate_name # None
              THEN WriteSinkCrates(f1, <<<<synql.sink_crate_name, tables>>>>)
              ELSE f1
        roots == IF synql.dag_sink_crate_prefix # None
                 THEN SelectSeq(RootTablesSeq(root_tables[1]),
                                LAMBDA t : t \notin DeniedSubtree)
                 ELSE <<>>
        f3 == WriteSinkCrates(f2, [i \in 1..Len(roots) |->
                                     <<dag_sink_crate_name(roots[i]), dag_tables(roots[i])>>])
        f4 == IF synql.generate_workspace_toml
              THEN Write(f3, workspace_toml_path, write_toml) ELSE f3
    IN IF synql.generate_rustfmt THEN Write(f4, rustfmt_path, write_rustfmt) ELSE f4

\* The destination without what was there before the run and was not cleared.
WrittenByRun == [p \in DOMAIN fs \ DOMAIN StaleFs |-> fs[p]]

SinkPaths(name) == {sink_crate_path(name), sink_toml_path(name), sink_lib_path(name)}

SinkStarted(name) == SinkPaths(name) \cap DOMAIN fs # {}
SinkEmitted(name) == SinkPaths(name) \subseteq DOMAIN fs

\* The directory, then the manifest, then the module.
InOrder(dir, toml, lib) ==
    /\ toml \in DOMAIN fs => dir \in DOMAIN fs
    /\ lib \in DOMAIN fs => toml \in DOMAIN fs

TablesEmitted == \A t \in Tables \ DeniedSubtree : CrateEmitted(t)

AllTablesSinkEmitted == synql.sink_crate_name # None => SinkEmitted(synql.sink_crate_name)

\* The roots that get a sink crate, once database.root_tables() has answered.
AdmittedRoots == IF root_tables = None THEN {} ELSE root_tables[1] \ DeniedSubtree

DagSinksEmitted ==
    synql.dag_sink_crate_prefix # None =>
        /\ root_tables # None
        /\ \A r \in AdmittedRoots : SinkEmitted(dag_sink_crate_name(r))

\* C17: the effects of a run come in this order, each finished before the
\* next begins: the destination is cleared; every table gets its directory,
\* then its manifest fragment, then its module, one table after the other;
\* then the sink crate of all tables; then the sink crates of the roots; then
\* the workspace manifest; then the formatting configuration.
C17_EffectsInOrder ==
    /\ (synql.clear_existing /\ DOMAIN fs \ DOMAIN StaleFs # {}) =>
          DOMAIN fs \cap DOMAIN StaleFs = {}
    /\ \A t \in Tables :
          InOrder(crate_absolute_path(t), crate_toml_path(t), crate_lib_path(t))
    /\ Cardinality({t \in Tables : CrateStarted(t) /\ ~CrateEmitted(t)}) <= 1
    /\ synql.sink_crate_name # None =>
          /\ InOrder(sink_crate_path(synql.sink_crate_name),
                     sink_toml_path(synql.sink_crate_name),
                     sink_lib_path(synql.sink_crate_name))
          /\ SinkStarted(synql.sink_crate_name) => TablesEmitted
    /\ synql.dag_sink_crate_prefix # None =>
          /\ \A r \in Tables :
                /\ InOrder(sink_crate_path(dag_sink_crate_name(r)),
                           sink_toml_path(dag_sink_crate_name(r)),
                           sink_lib_path(dag_sink_crate_name(r)))
                /\ SinkStarted(dag_sink_crate_name(r)) =>
                      TablesEmitted /\ AllTablesSinkEmitted
          /\ Cardinality({r \in Tables : /\ SinkStarted(dag_sink_crate_name(r))
                                         /\ ~SinkEmitted(dag_sink_crate_name(r))}) <= 1
    /\ workspace_toml_path \in DOMAIN fs =>
          TablesEmitted /\ AllTablesSinkEmitted /\ DagSinksEmitted
    /\ rustfmt_path \in DOMAIN fs =>
          /\ TablesEmitted /\ AllTablesSinkEmitted /\ DagSinksEmitted
          /\ synql.generate_workspace_toml => workspace_toml_path \in DOMAIN fs

\* A run that cleared the destination and took every step: two table crates,
\* the sink crate, the sink crate of a root, the manifest, the formatting.
C17_Witness ==
    /\ pc = "done" /\ result = "ok"
    /\ synql.clear_existing
    /\ Cardinality({t \in Tables : CrateEmitted(t)}) >= 2
    /\ synql.sink_crate_name # None /\ SinkEmitted(synql.sink_crate_name)
    /\ synql.dag_sink_crate_prefix # None
    /\ \E r \in AdmittedRoots : SinkEmitted(dag_sink_crate_name(r))
    /\ workspace_toml_path \in DOMAIN fs
    /\ rustfmt_path \in DOMAIN fs

\* C18: when the emission of a table fails, generate() returns the error at
\* once: the failing step leaves the destination as it is, with what was
\* written before, and no step follows it: no later table, no sink crate, no
\* workspace manifest and no formatting configuration is written.
C18_FailFast ==
    [][/\ result # "err"
       /\ result' = "err" => (pc' = "done" /\ fs' = fs)]_vars

\* A run that failed while it emitted a table, after another table was
\* emitted in full, with a table and the sink crate still to come.
C18_Witness ==
    /\ pc = "done" /\ result = "err"
    /\ \E t \in Tables : CrateEmitted(t)
    /\ \E t \in Tables : CrateStarted(t) /\ ~CrateEmitted(t)
    /\ \E t \in Tables \ DeniedSubtree : ~CrateStarted(t)
    /\ synql.sink_crate_name # None /\ ~SinkStarted(synql.sink_crate_name)
    /\ synql.generate_workspace_toml /\ workspace_toml_path \notin DOMAIN fs

\* The tables of the DAG rooted at a table: the table and its dependants.
DagOf(root_table) == {t \in Tables : t = root_table \/ depends_on(t, root_table)}

\* The sink crate of a root, as a successful run left it.
DagSinkDependencies(r) == Range(fs[sink_toml_path(dag_sink_crate_name(r))].dependencies)
DagSinkReExports(r) == Range(fs[sink_lib_path(dag_sink_crate_name(r))].re_exports)

\* C19: after a successful run, the sink crate of every root that is not
\* skipped depends on and re-exports exactly the root and the tables that
\* depend on it, and neither a table the root depends on nor a table
\* unrelated to it.
C19_RootSinkHoldsItsDag ==
    (pc = "done" /\ result = "ok" /\ synql.dag_sink_crate_prefix # None) =>
        \A r \in AdmittedRoots :
            /\ DagSinkDependencies(r) = DagOf(r)
            /\ DagSinkReExports(r) = DagOf(r)

\* What the writers do: the sink crate of every root depends on and
\* re-exports every admitted table of the schema.
C19_RootSinkHoldsEveryAdmittedTable ==
    (pc = "done" /\ result = "ok" /\ synql.dag_sink_crate_prefix # None) =>
        \A r \in AdmittedRoots :
            /\ DagSinkDependencies(r) = Tables \ DeniedSubtree
            /\ DagSinkReExports(r) = Tables \ DeniedSubtree

DagSinkRefers(r) ==
    (IF sink_toml_path(dag_sink_crate_name(r)) \in DOMAIN fs
     THEN DagSinkDependencies(r) ELSE {})
    \cup (IF sink_lib_path(dag_sink_crate_name(r)) \in DOMAIN fs
          THEN DagSinkReExports(r) ELSE {})

\* C29: every table that the sink crate of a root depends on or re-exports
\* is an admitted table whose crate the same run has emitted; no sink crate
\* of a root refers to a table that was skipped, such as a descendant of the
\* root that also depends on a denied table.
C29_RootSinksReferToEmittedTables ==
    synql.dag_sink_crate_prefix # None =>
        \A r \in Tables : \A t \in DagSinkRefers(r) :
            /\ ~skip_table(t)
            /\ t \notin DeniedSubtree
            /\ CrateEmitted(t)

\* A successful run with the sink crate of a root that is not skipped, one
\* of whose descendants was skipped because it depends on a denied table.
C29_Witness ==
    /\ pc = "done" /\ result = "ok" /\ synql.dag_sink_crate_prefix # None
    /\ \E r \in AdmittedRoots :
          /\ SinkEmitted(dag_sink_crate_name(r))
          /\ DagSinkRefers(r) # {}
          /\ \E t \in DagOf(r) \ {r} : t \in DeniedSubtree

\* C30: the admitted tables are closed under dependencies: whatever the deny
\* list, every table that an admitted table references by a foreign key is
\* admitted too, and the crate of a table is only written when the tables it
\* references are admitted and have their crates from the same run.
C30_AdmittedClosedUnderDependencies ==
    /\ \A t \in Tables :
          ~skip_table(t) => \A u \in referenced_tables(t) : ~skip_table(u)
    /\ \A t \in Tables :
          CrateStarted(t) =>
              \A u \in referenced_tables(t) :
                  /\ u \notin DeniedSubtree
                  /\ u # t => CrateEmitted(u)

\* A successful run with a deny list that skips a table, and an emitted
\* table that references another emitted table.
C30_Witness ==
    /\ pc = "done" /\ result = "ok"
    /\ synql.deny_list # <<>>
    /\ \E t \in Tables : \E u \in referenced_tables(t) \ {t} :
          CrateEmitted(t) /\ CrateEmitted(u)

\* The tables that have a sink crate of their own, begun or finished.
DagSinkTables == {t \in Tables : SinkStarted(dag_sink_crate_name(t))}

EmittedCrates ==
    {crate_absolute_path(t) : t \in {u \in Tables : CrateEmitted(u)}}
    \cup (IF synql.sink_crate_name # None /\ SinkEmitted(synql.sink_crate_name)
          THEN {sink_crate_path(synql.sink_crate_name)} ELSE {})
    \cup (IF synql.dag_sink_crate_prefix # None
          THEN {sink_crate_path(dag_sink_crate_name(r)) :
                  r \in {u \in Tables : SinkEmitted(dag_sink_crate_name(u))}}
          ELSE {})

\* The members of the manifest after the additional ones.
GeneratedMembers ==
    SubSeq(fs[workspace_toml_path].members, Len(synql.members) + 1,
           Len(fs[workspace_toml_path].members))

ManifestWritten ==
    /\ workspace_toml_path \in DOMAIN fs
    /\ \A i \in 1..Len(synql.members) : synql.members[i] # None

\* C22: a workspace manifest that was generated lists the additional
\* members first, in their order, and after them exactly the crates the run
\* emitted, each once: the admitted tables, then the sink crate of all tables
\* if there is one, then the sink crates of the roots.
C22_ManifestListsEmittedCrates ==
    ManifestWritten =>
        /\ SubSeq(fs[workspace_toml_path].members, 1, Len(synql.members))
              = [i \in 1..Len(synql.members) |-> synql.members[i][1]]
        /\ Range(GeneratedMembers) = EmittedCrates
        /\ Len(GeneratedMembers) = Cardinality(EmittedCrates)
        /\ \A i, j \in 1..Len(GeneratedMembers) :
              (i < j /\ GeneratedMembers[j][1] = "crates") =>
                  GeneratedMembers[i][1] = "crates"
        /\ \A i \in 1..Len(GeneratedMembers) :
              (/\ synql.sink_crate_name # None
               /\ GeneratedMembers[i] = sink_crate_path(synql.sink_crate_name)) =>
                  \A j \in 1..(i - 1) : GeneratedMembers[j][1] = "crates"

\* A manifest with two additional members, written after a run that skipped
\* a table and emitted a table, the sink crate of all tables and the sink
\* crate of a root.
C22_Witness ==
    /\ ManifestWritten /\ result = "ok"
    /\ Len(synql.members) = 2
    /\ DeniedSubtree # {}
    /\ \E t \in Tables : CrateEmitted(t)
    /\ synql.sink_crate_name # None
    /\ synql.dag_sink_crate_prefix # None
    /\ \E r \in Tables : SinkEmitted(dag_sink_crate_name(r))

\* The callbacks of a kind, and the calls of that kind made for a table.
Registered(kind) == IF kind = "callback" THEN synql.callbacks ELSE synql.toml_callbacks
CallsOf(kind, t) == SelectSeq(invoked, LAMBDA c : c[1] = kind /\ c[2] = t)
Returned(c) == call(Registered(c[1])[c[3]], c[2])

\* What the callbacks of a kind contribute for a table, in the order of
\* their registration.
Contributed(kind, t) ==
    LET given == SelectSeq(Registered(kind),
                           LAMBDA c : call(c, t).kind = "Ok" /\ call(c, t).value # None)
    IN [i \in 1..Len(given) |-> call(given[i], t).value[1]]

\* C23: for every admitted table the callbacks are called in the order of
\* their registration, each at most once; a manifest fragment or a module
\* that was written holds what every callback of its kind returned, in that
\* order; the first error a callback returns ends the run and is the error
\* generate() returns, and no callback is called after it.
C23_CallbacksInOrderErrorsPropagated ==
    /\ \A kind \in {"callback", "toml_callback"} : \A t \in Tables :
          /\ CallsOf(kind, t) = Calls(kind, t, Len(CallsOf(kind, t)))
          /\ Len(CallsOf(kind, t)) <= Len(Registered(kind))
          /\ CallsOf(kind, t) # <<>> => t \notin DeniedSubtree
    /\ \A t \in Tables :
          /\ crate_toml_path(t) \in DOMAIN fs =>
                /\ Len(CallsOf("toml_callback", t)) = Len(synql.toml_callbacks)
                /\ fs[crate_toml_path(t)]
                     = <<"crate_toml", t>> \o Contributed("toml_callback", t)
          /\ crate_lib_path(t) \in DOMAIN fs =>
                /\ Len(CallsOf("callback", t)) = Len(synql.callbacks)
                /\ fs[crate_lib_path(t)] = <<"crate_lib", t>> \o Contributed("callback", t)
    /\ \A i \in 1..Len(invoked) :
          Returned(invoked[i]).kind = "Err" =>
              /\ i = Len(invoked)
              /\ callback_error = Some(Returned(invoked[i]).error)
              /\ result = "err" /\ pc = "done"
    /\ callback_error # None =>
          /\ invoked # <<>>
          /\ Returned(invoked[Len(invoked)]).kind = "Err"

\* A run that ended on the error of the second callback of a module, after
\* the first callback was called and after the manifest fragment of the
\* table was written with the dependency its callback returned.
C23_Witness ==
    /\ callback_error = Some("e1") /\ result = "err"
    /\ synql.callbacks = <<"gives_a", "fails_e1">>
    /\ synql.toml_callbacks = <<"gives_b">>
    /\ \E t \in Tables :
          /\ crate_toml_path(t) \in DOMAIN fs
          /\ fs[crate_toml_path(t)] = <<"crate_toml", t, <<"b", t>>>>
          /\ crate_lib_path(t) \notin DOMAIN fs
          /\ invoked[Len(invoked)] = <<"callback", t, 2>>

----------------------------------------------------------------------------
(* Claims about the configuration of a run.                                *)

Admitted == {t \in Tables : ~skip_table(t)}

\* The sizes of the tiers and the tier of a size.
TierSizes == {16, 32, 64, 128}
Tier(size) ==
    CASE size = 16 -> "Columns16"
      [] size = 32 -> "Columns32"
      [] size = 64 -> "Columns64"
      [] size = 128 -> "Columns128"

\* The smallest tier that holds n columns.
SmallestTier(n) ==
    Tier(CHOOSE size \in TierSizes :
           size >= n /\ \A other \in TierSizes : other >= n => size <= other)

\* The columns of a table and of the tables it extends.
HierarchyColumns(t) == number_of_columns(t) + sum_number_of_columns(ancestral_extended_tables(t))

\* The largest column count of an admitted table, of an admitted hierarchy.
MaximalColumns == max_unwrap_or_0({number_of_columns(t) : t \in Admitted})
MaximalHierarchyColumns == max_unwrap_or_0({HierarchyColumns(t) : t \in Admitted})

\* C14: the tier selected for a maximal column count n is the smallest of 16,
\* 32, 64 and 128 that is at least n, n being the largest column count of an
\* admitted table and, separately, the largest column count of an admitted
\* table together with the tables it extends.
C14_SmallestSufficientTier ==
    workspace # None =>
        /\ workspace[1].postgis_diesel = SmallestTier(MaximalColumns)
        /\ workspace[1].diesel_builders = SmallestTier(MaximalHierarchyColumns)

\* A table of 16 columns that extends a table of one column: tier 16 for the
\* tables, tier 32 for the hierarchies.
C14_Witness ==
    /\ workspace # None
    /\ MaximalColumns = 16
    /\ MaximalHierarchyColumns = 17
    /\ workspace[1].postgis_diesel = "Columns16"
    /\ workspace[1].diesel_builders = "Columns32"

\* generate() returned an error before it built the Workspace: the only `?`
\* of lines 233-288 is on try_into(), the selection of the tier.
RejectedByTierSelection == pc = "done" /\ result = "err" /\ workspace = None

\* C15: the selection of the tier never rejects a schema: whatever the
\* column counts, generate() does not fail because of them.
C15_TierSelectionNeverRejects == ~RejectedByTierSelection

\* What holds instead: a schema is rejected exactly when an admitted table,
\* alone or with the tables it extends, has more than 128 columns.
C15_RejectedAbove128Columns ==
    pc # "new" => (RejectedByTierSelection <=> MaximalHierarchyColumns > 128)

InvalidName ==
    LET name == IF synql.name # None THEN synql.name[1] ELSE catalog_name
    IN name = <<>> \/ \E i \in 1..Len(name) : name[i] = " "

InvalidConfiguration == InvalidName \/ MaximalHierarchyColumns > 128

\* C16: on an invalid configuration (a workspace name that is empty or holds
\* a space, a column count above every tier) generate() returns an error
\* before anything in the destination is cleared, created or written.
C16_InvalidConfigurationReturnsError ==
    (InvalidConfiguration /\ pc # "new") =>
        /\ pc = "done"
        /\ result = "err"
        /\ fs = StaleFs

\* What holds instead: the destination is left as it was, an error is
\* returned for the column count, and an invalid name alone makes generate()
\* panic.
C16_InvalidConfigurationTouchesNothing ==
    (InvalidConfiguration /\ pc # "new") =>
        /\ pc = "done"
        /\ fs = StaleFs
        /\ result = IF MaximalHierarchyColumns > 128 THEN "err" ELSE "panic"

----------------------------------------------------------------------------
(* Table lists (sql_relations, TableListLike).                             *)

MaxColumns == 2    \* columns of the table under classification

ColumnLists == UNION {[1..n -> Column] : n \in 0..MaxColumns}

\* table.refers_to(database, other): a foreign key of table references other.
refers_to(table, other) == \E fk \in foreign_keys : fk[1] = table /\ fk[2] = other

\* The classifier without its first test: it looks at the first column only.
is_table_list_like_first_column(table) ==
    IF number_of_columns(table) = 0 THEN FALSE
    ELSE LET column == columns[table][1]
         IN IF ~column.primary_key \/ ~column.textual THEN FALSE
            ELSE \E t \in root_tables[1] : refers_to(t, table)

\* The classifier asking every table, not only the roots.
is_table_list_like_any_table(table) ==
    IF number_of_columns(table) # 1 THEN FALSE
    ELSE LET column == columns[table][1]
         IN IF ~column.primary_key \/ ~column.textual THEN FALSE
            ELSE \E t \in Tables : refers_to(t, table)

\* Lines 56-72.
is_table_list_like(table) ==
    IF number_of_columns(table) # 1 THEN FALSE
    ELSE LET column == columns[table][1]
         IN IF ~column.primary_key \/ ~column.textual THEN FALSE
            ELSE \E t \in root_tables[1] : refers_to(t, table)

\* A call of is_table_list_like on a table of the database.
IsTableListLike ==
    /\ \E t \in Tables :
         classified' = Some([table |-> t, is_table_list_like |-> is_table_list_like(t)])
    /\ UNCHANGED <<genvars, columns, exprvars, cbvars, auxvars>>

\* A foreign key lies on columns and references columns.
ForeignKeysHaveColumns ==
    \A fk \in foreign_keys : columns[fk[1]] # <<>> /\ columns[fk[2]] # <<>>

\* A database: the columns of one table are free, the other tables are
\* `id INT PRIMARY KEY`; root_tables() has its answer.
InitTableList ==
    /\ foreign_keys \in Schemas
    /\ \E roots \in {r \in SUBSET Tables : Cardinality(r) <= MaxRoots} :
         root_tables = Some(roots)
    /\ columns \in [Tables -> ColumnLists]
    /\ Cardinality({t \in Tables : columns[t] # <<IdColumn>>}) <= 1
    /\ ForeignKeysHaveColumns
    /\ classified = None
    /\ IdleGenerate
    /\ IdleCompiler
    /\ IdleAux

NextTableList == IsTableListLike

SpecTableList == InitTableList /\ [][NextTableList]_vars

----------------------------------------------------------------------------
(* Claims about table lists.                                               *)

\* The classified table and the answer it got.
ClassifiedTable == classified[1].table
Answer == classified[1].is_table_list_like

PrimaryKeyColumns(t) == {i \in 1..Len(columns[t]) : columns[t][i].primary_key}

\* A root table references t by a foreign key.
ReferencedByRoot(t) == \E r \in root_tables[1] : <<r, t>> \in foreign_keys

\* A chain of one or more foreign keys leads from a root table to t.
ReachedFromRoot(t) ==
    \E r \in root_tables[1] : \E x \in referenced_tables(r) : t \in Ancestors(x)

C5_NotTableListLike ==
    classified # None =>
        LET t == ClassifiedTable
        IN /\ Len(columns[t]) # 1 => ~Answer
           /\ (Len(columns[t]) = 1 /\ ~columns[t][1].textual) => ~Answer
           /\ (Len(columns[t]) = 1 /\ ~columns[t][1].primary_key) => ~Answer
           /\ (\A r \in Tables : <<r, t>> \in foreign_keys => r \notin root_tables[1])
                => ~Answer

\* The orphan: a single textual primary key referenced by a table that is no
\* root, while the database has a root.
C5_Witness ==
    /\ classified # None
    /\ ~Answer
    /\ columns[ClassifiedTable] = <<[primary_key |-> TRUE, textual |-> TRUE]>>
    /\ \E r \in Tables : <<r, ClassifiedTable>> \in foreign_keys
    /\ root_tables[1] # {}
    /\ ~ReferencedByRoot(ClassifiedTable)

----------------------------------------------------------------------------
(* Check constraints (synql, CheckConstraintSynLike, TranslateExpression). *)

MaxNumber == 1     \* the numeric literals of a constraint are 0..MaxNumber

\* The table of the constraint: `CREATE TABLE t (a INT, b INT, name TEXT)`.
table_name == "t"
ColumnNames == <<"a", "b", "name">>

\* column.external_postgres_type(workspace, database).
column_type(ident) == IF ident = "name" THEN "String" ELSE "i32"

is_textual(ident) == column_type(ident) = "String"
is_nullable(ident) == ident \in nullable_columns
is_contextual_column(ident) == ident \in contextual_columns

\* The expression tree of sqlparser.
Identifier(ident) == [kind |-> "Identifier", value |-> ident]
Value(variant, text) == [kind |-> "Value", variant |-> variant, value |-> text]
Function(name, ident) == [kind |-> "Function", name |-> name, arg |-> ident]
BinaryOp(left, op, right) == [kind |-> "BinaryOp", left |-> left, op |-> op, right |-> right]
Nested(expr) == [kind |-> "Nested", expr |-> expr]
IsNull(expr) == [kind |-> "IsNull", expr |-> expr]
IsNotNull(expr) == [kind |-> "IsNotNull", expr |-> expr]

\* The generated code: a panic of the generator, or token streams. A token is
\* a string; a statement is `if cond { return Err(error); }` or `code?;`.
Panic == [kind |-> "panic"]
Tokens(code, scoped_columns, type) ==
    [kind |-> "tokens", code |-> code, scoped_columns |-> scoped_columns, type |-> type]
IfErr(cond, error) == [kind |-> "if", cond |-> cond, error |-> error]
Try(code) == [kind |-> "try", code |-> code]

\* ::validation_errors::ValidationError::name(TABLE_NAME, column NAMEs, threshold).
ValidationError(name, idents, threshold) ==
    [name |-> name, table |-> table_name, columns |-> idents, threshold |-> threshold]

\* Lines 38-50: the operator with its operands exchanged.
invert_operator(op) ==
    CASE op = "Eq" -> "Eq"
      [] op = "NotEq" -> "NotEq"
      [] op = "Gt" -> "Lt"
      [] op = "Lt" -> "Gt"
      [] op = "GtEq" -> "LtEq"
      [] op = "LtEq" -> "GtEq"
      [] OTHER -> "unimplemented"

\* Lines 53-65.
syn_operator(op) ==
    CASE op = "Eq" -> "=="
      [] op = "NotEq" -> "!="
      [] op = "Gt" -> ">"
      [] op = "Lt" -> "<"
      [] op = "GtEq" -> ">="
      [] op = "LtEq" -> "<="
      [] OTHER -> "unimplemented"

\* type_hint.cast(value): the literal rendered as a literal of the type.
cast(type_hint, text) == text \o type_hint

\* Lines 589-612.
parse_value(value, type_hint) ==
    CASE value.variant = "Boolean" -> Tokens(<<value.value>>, <<>>, Some("bool"))
      [] value.variant = "Number" ->
           IF type_hint = None THEN Panic
           ELSE Tokens(<<cast(type_hint[1], value.value)>>, <<>>, type_hint)
      [] value.variant = "SingleQuotedString" ->
           Tokens(<<"\"" \o value.value \o "\"">>, <<>>, Some("String"))
      [] OTHER -> Panic

\* Lines 561-576.
parse_column_value(ident, value) == parse_value(value, Some(column_type(ident)))

\* One arm of map_value_expr_to_single_field_error: `if column op &value`.
single_field_error(ident, value, op, name) ==
    LET column_value == parse_column_value(ident, value)
        float_value == parse_value(value, Some("f64"))
    IN IF column_value = Panic \/ float_value = Panic THEN Panic
       ELSE IfErr(<<ident, op, "&">> \o column_value.code,
                  ValidationError(name, <<ident>>, Some(float_value.code[1])))

\* The arms with the tests of `<=` and `<` exchanged.
map_value_expr_to_single_field_error_shifted(ident, value, op) ==
    CASE op = "NotEq" ->
           IF is_textual(ident) /\ value = Value("SingleQuotedString", "")
           THEN IfErr(<<ident, ".is_empty()">>, ValidationError("empty", <<ident>>, None))
           ELSE Panic
      [] op = "LtEq" -> single_field_error(ident, value, ">=", "smaller_than_value")
      [] op = "Lt" -> single_field_error(ident, value, ">", "strictly_smaller_than_value")
      [] op = "Gt" -> single_field_error(ident, value, "<=", "strictly_greater_than_value")
      [] op = "GtEq" -> single_field_error(ident, value, "<", "greater_than_value")
      [] OTHER -> Panic

\* Lines 254-336.
map_value_expr_to_single_field_error(ident, value, op) ==
    CASE op = "NotEq" ->
           IF is_textual(ident) /\ value = Value("SingleQuotedString", "")
           THEN IfErr(<<ident, ".is_empty()">>, ValidationError("empty", <<ident>>, None))
           ELSE Panic
      [] op = "LtEq" -> single_field_error(ident, value, ">", "smaller_than_value")
      [] op = "Lt" -> single_field_error(ident, value, ">=", "strictly_smaller_than_value")
      [] op = "Gt" -> single_field_error(ident, value, "<=", "strictly_greater_than_value")
      [] op = "GtEq" -> single_field_error(ident, value, "<", "greater_than_value")
      [] OTHER -> Panic

\* ident.as_ref().is_some_and(|ident| body)
is_some_and(ident, body) ==
    <<ident, ".as_ref()", ".is_some_and(", "|" \o ident \o "|">> \o body \o <<")">>

\* ident.as_ref().is_none_or(|ident| body)
is_none_or(ident, body) ==
    <<ident, ".as_ref()", ".is_none_or(", "|" \o ident \o "|">> \o body \o <<")">>

\* The closure with an absent operand counted as a violation.
compare_op_is_none_or(left, right, op) ==
    LET left_optional == is_nullable(left) /\ ~is_contextual_column(left)
        right_optional == is_nullable(right) /\ ~is_contextual_column(right)
    IN CASE left_optional /\ right_optional ->
              is_none_or(left, is_none_or(right, <<left, op, right>>))
         [] left_optional /\ ~right_optional -> is_none_or(left, <<left, op, right>>)
         [] ~left_optional /\ right_optional -> is_none_or(right, <<left, op, right>>)
         [] OTHER -> <<left, op, right>>

\* Lines 172-206.
compare_op(left, right, op) ==
    LET left_optional == is_nullable(left) /\ ~is_contextual_column(left)
        right_optional == is_nullable(right) /\ ~is_contextual_column(right)
    IN CASE left_optional /\ right_optional ->
              is_some_and(left, is_some_and(right, <<left, op, right>>))
         [] left_optional /\ ~right_optional -> is_some_and(left, <<left, op, right>>)
         [] ~left_optional /\ right_optional -> is_some_and(right, <<left, op, right>>)
         [] OTHER -> <<left, op, right>>

\* The arms with the errors of `<` and `<=` exchanged.
map_expr_to_double_field_error_swapped(left, right, op) ==
    CASE op = "NotEq" ->
           IfErr(compare_op(left, right, "=="), ValidationError("equal", <<left, right>>, None))
      [] op = "LtEq" ->
           IfErr(compare_op(left, right, ">="),
                 ValidationError("strictly_smaller_than", <<left, right>>, None))
      [] op = "Lt" ->
           IfErr(compare_op(left, right, ">"),
                 ValidationError("smaller_than", <<left, right>>, None))
      [] op = "Gt" ->
           IfErr(compare_op(left, right, "<="),
                 ValidationError("strictly_greater_than", <<left, right>>, None))
      [] op = "GtEq" ->
           IfErr(compare_op(left, right, "<"),
                 ValidationError("greater_than", <<left, right>>, None))
      [] OTHER -> Panic

\* Lines 158-252.
map_expr_to_double_field_error(left, right, op) ==
    CASE op = "NotEq" ->
           IfErr(compare_op(left, right, "=="), ValidationError("equal", <<left, right>>, None))
      [] op = "LtEq" ->
           IfErr(compare_op(left, right, ">"),
                 ValidationError("smaller_than", <<left, right>>, None))
      [] op = "Lt" ->
           IfErr(compare_op(left, right, ">="),
                 ValidationError("strictly_smaller_than", <<left, right>>, None))
      [] op = "Gt" ->
           IfErr(compare_op(left, right, "<="),
                 ValidationError("strictly_greater_than", <<left, right>>, None))
      [] op = "GtEq" ->
           IfErr(compare_op(left, right, "<"),
                 ValidationError("greater_than", <<left, right>>, None))
      [] OTHER -> Panic

\* Lines 81-152: Some(the validation) when the expression has one of the
\* recognised shapes, None otherwise.
map_expr_to_validation_error(expr) ==
    IF expr.kind # "BinaryOp" THEN None
    ELSE LET left == expr.left
             right == expr.right
             op == expr.op
         IN CASE left.kind = "Identifier" /\ right.kind = "Value" ->
                   Some(map_value_expr_to_single_field_error(left.value, right, op))
              [] left.kind = "Identifier" /\ right.kind = "Function" /\ right.name = "NOW" ->
                   IF op \notin {"LtEq", "Lt"} THEN Some(Panic)
                   ELSE Some(IfErr(<<left.value, syn_operator(invert_operator(op)),
                                     "::chrono::Utc::now()">>,
                                   ValidationError("in_the_future", <<left.value>>, None)))
              [] left.kind = "Function" /\ right.kind = "Value" /\ left.name = "length" ->
                   LET value_usize == parse_value(right, Some("usize"))
                   IN IF value_usize = Panic \/ invert_operator(op) = "unimplemented"
                      THEN Some(Panic)
                      ELSE Some(IfErr(<<left.arg, ".len()", syn_operator(invert_operator(op))>>
                                        \o value_usize.code,
                                      ValidationError("exceeds_max_length", <<left.arg>>,
                                                      Some(value_usize.code[1]))))
              [] left.kind = "Value" /\ right.kind = "Identifier" ->
                   IF invert_operator(op) = "unimplemented" THEN Some(Panic)
                   ELSE Some(map_value_expr_to_single_field_error(right.value, left,
                                                                  invert_operator(op)))
              [] left.kind = "Identifier" /\ right.kind = "Identifier" ->
                   Some(map_expr_to_double_field_error(left.value, right.value, op))
              [] OTHER -> None

\* Lines 460-547: the call with its argument; the function has no return type.
parse_function(function) ==
    Tokens(<<function.name \o "(", function.arg, ")">>, <<>>, None)

\* Lines 711-717 with the operand kept by `true AND x` exchanged.
and_fold_left(left, right) ==
    CASE left = <<"true">> /\ right = <<"true">> -> <<"true">>
      [] left = <<"false">> \/ right = <<"false">> -> <<"false">>
      [] left = <<"true">> -> left
      [] right = <<"true">> -> right
      [] OTHER -> left \o <<"&&">> \o right

\* Lines 711-717.
and_fold(left, right) ==
    CASE left = <<"true">> /\ right = <<"true">> -> <<"true">>
      [] left = <<"false">> \/ right = <<"false">> -> <<"false">>
      [] left = <<"true">> -> right
      [] right = <<"true">> -> left
      [] OTHER -> left \o <<"&&">> \o right

\* Lines 739-745.
or_fold(left, right) ==
    CASE left = <<"false">> /\ right = <<"false">> -> <<"false">>
      [] left = <<"true">> \/ right = <<"true">> -> <<"true">>
      [] left = <<"false">> -> right
      [] right = <<"false">> -> left
      [] OTHER -> left \o <<"||">> \o right

ComparisonOperators == {"Eq", "NotEq", "Gt", "Lt", "GtEq", "LtEq"}
ArithmeticOperators == {"Plus", "Minus", "Multiply", "Divide", "Modulo"}

arithmetic_operator(op) ==
    CASE op = "Plus" -> "+"
      [] op = "Minus" -> "-"
      [] op = "Multiply" -> "*"
      [] op = "Divide" -> "/"
      [] op = "Modulo" -> "%"

is_bool(type) == type = "bool"
is_numeric(type) == type \in {"i32", "f64", "usize"}

\* IS [NOT] NULL on a column, without the test of lines 853 and 893.
parse_is_null_unchecked(ident, kind) ==
    IF is_contextual_column(ident)
    THEN Tokens(IF kind = "IsNull" THEN <<"false">> ELSE <<"true">>, <<>>, Some("bool"))
    ELSE Tokens(<<ident, IF kind = "IsNull" THEN ".is_none()" ELSE ".is_some()">>,
                <<>>, Some("bool"))

\* Lines 851-877 and 891-917: IS [NOT] NULL on a column.
parse_is_null(ident, kind) ==
    IF ~is_nullable(ident) THEN Panic
    ELSE IF is_contextual_column(ident)
    THEN Tokens(IF kind = "IsNull" THEN <<"false">> ELSE <<"true">>, <<>>, Some("bool"))
    ELSE Tokens(<<ident, IF kind = "IsNull" THEN ".is_none()" ELSE ".is_some()">>,
                <<>>, Some("bool"))

\* Lines 655-938.
RECURSIVE inner_parse(_, _)
inner_parse(expr, type_hint) ==
    CASE expr.kind = "Function" -> parse_function(expr)
      [] expr.kind = "Nested" -> inner_parse(expr.expr, type_hint)
      [] expr.kind = "Identifier" ->
           Tokens(<<expr.value>>, <<expr.value>>, Some(column_type(expr.value)))
      [] expr.kind = "BinaryOp" /\ expr.op \in {"And", "Or"} ->
           LET left == inner_parse(expr.left, None)
               right == inner_parse(expr.right, None)
           IN IF left = Panic \/ right = Panic THEN Panic
              ELSE IF left.scoped_columns # <<>> \/ right.scoped_columns # <<>> THEN Panic
              ELSE IF left.type = None \/ right.type = None THEN Panic
              ELSE IF ~(is_bool(left.type[1]) /\ is_bool(right.type[1])) THEN Panic
              ELSE Tokens(IF expr.op = "And" THEN and_fold(left.code, right.code)
                          ELSE or_fold(left.code, right.code),
                          <<>>, Some("bool"))
      [] expr.kind = "BinaryOp" /\ expr.op \in ComparisonOperators ->
           LET left == inner_parse(expr.left, None)
           IN IF left = Panic THEN Panic
              ELSE IF left.type = None THEN Panic
              ELSE LET right == inner_parse(expr.right, left.type)
                   IN IF right = Panic THEN Panic
                      ELSE IF right.type = None THEN Panic
                      ELSE IF left.type # right.type THEN Panic
                      ELSE Tokens(left.code \o <<syn_operator(expr.op)>> \o right.code,
                                  <<>>, Some("bool"))
      [] expr.kind = "BinaryOp" /\ expr.op \in ArithmeticOperators ->
           LET left == inner_parse(expr.left, type_hint)
               right == inner_parse(expr.right, type_hint)
           IN IF left = Panic \/ right = Panic THEN Panic
              ELSE IF left.type # right.type THEN Panic
              ELSE IF left.type = None THEN Panic
              ELSE IF ~is_numeric(left.type[1]) THEN Panic
              ELSE Tokens(left.code \o <<arithmetic_operator(expr.op)>> \o right.code,
                          <<>>, left.type)
      [] expr.kind = "Value" -> parse_value(expr, type_hint)
      [] expr.kind \in {"IsNull", "IsNotNull"} ->
           IF expr.expr.kind = "Identifier"
           THEN parse_is_null(expr.expr.value, expr.kind)
           ELSE LET inner_token == inner_parse(expr.expr, None)
                IN IF inner_token = Panic THEN Panic
                   ELSE Tokens(inner_token.code
                                 \o <<IF expr.kind = "IsNull" THEN ".is_none()"
                                      ELSE ".is_some()">>,
                               <<>>, Some("bool"))
      [] OTHER -> Panic

\* Lines 636-650.
parse(expr) ==
    LET validation_error_token == map_expr_to_validation_error(expr)
    IN IF validation_error_token # None THEN validation_error_token[1]
       ELSE LET internal_token == inner_parse(expr, None)
            IN IF internal_token = Panic THEN Panic
               ELSE IF internal_token.scoped_columns # <<>> THEN Panic
               ELSE Try(internal_token.code)

\* The sub-expressions the constraint is compiled by: the expression itself.
sub_expressions(expr) == <<expr>>

\* check_constraint.columns(database): the columns the expression names.
RECURSIVE constraint_columns(_)
constraint_columns(expr) ==
    CASE expr.kind = "Identifier" -> {expr.value}
      [] expr.kind = "Function" -> IF expr.name = "NOW" THEN {} ELSE {expr.arg}
      [] expr.kind = "BinaryOp" ->
           constraint_columns(expr.left) \cup constraint_columns(expr.right)
      [] expr.kind \in {"Nested", "IsNull", "IsNotNull"} -> constraint_columns(expr.expr)
      [] OTHER -> {}

\* check_constraint.rs, lines 31-73: the compiled sub-expressions, inside
\* `if let Some(column) = may_get_column_ref(self)` for every column of the
\* constraint that is not in the context.
to_syn ==
    LET subs == sub_expressions(check_constraint)
        translated_expressions == [i \in 1..Len(subs) |-> parse(subs[i])]
        relevant_optional_columns ==
            SelectSeq(ColumnNames,
                      LAMBDA c : c \in constraint_columns(check_constraint)
                                   /\ c \notin contextual_columns)
    IN IF \E i \in 1..Len(subs) : translated_expressions[i] = Panic THEN Panic
       ELSE [kind |-> "code", if_let_some |-> relevant_optional_columns,
             statements |-> translated_expressions]

----------------------------------------------------------------------------
(* The generated validation, run on the values of a row.                   *)

Digits == <<"0", "1", "2", "3", "4", "5", "6", "7", "8", "9">>

\* The text of a number, as sqlparser keeps it in Value::Number.
NumberText(n) == Digits[n + 1]

Numbers == 0..MaxNumber

RustTypes == {"i32", "f64", "usize"}

\* The number a numeric literal of the generated code denotes.
literal_value(token) ==
    CHOOSE n \in Numbers : \E type \in RustTypes : token = cast(type, NumberText(n))

RECURSIVE StringOfLength(_)
StringOfLength(n) == IF n = 0 THEN "" ELSE "x" \o StringOfLength(n - 1)

\* The values a column can hold: below, at and above every literal.
ColumnValues(ident) ==
    IF is_textual(ident) THEN {StringOfLength(n) : n \in 0..(MaxNumber + 1)}
    ELSE 0..(MaxNumber + 1)

\* What the validation sees of a column: the argument of validate_column for
\* the column of the context; for another column what may_get_column_ref
\* returns: None when unset, else Some(value), the value of a nullable column
\* being None or Some(value) itself.
SeenValues(ident) ==
    IF is_contextual_column(ident) THEN ColumnValues(ident)
    ELSE {None} \cup {Some(v) : v \in IF is_nullable(ident)
                                      THEN {None} \cup {Some(x) : x \in ColumnValues(ident)}
                                      ELSE ColumnValues(ident)}

RECURSIVE RowsOver(_)
RowsOver(idents) ==
    IF idents = {} THEN {[c \in {} |-> None]}
    ELSE LET ident == CHOOSE c \in idents : TRUE
         IN {[c \in idents |-> IF c = ident THEN v ELSE rest[c]] :
               v \in SeenValues(ident), rest \in RowsOver(idents \ {ident})}

\* The rows a validation of the constraint may be run on.
Rows == RowsOver(constraint_columns(check_constraint))

Ok == [kind |-> "Ok"]
Err(error) == [kind |-> "Err", error |-> error]

\* The first position of a token among the tokens, 0 when it is not there.
Position(ts, tokens) ==
    IF \E i \in 1..Len(ts) : ts[i] \in tokens
    THEN CHOOSE i \in 1..Len(ts) : ts[i] \in tokens /\ \A j \in 1..(i - 1) : ts[j] \notin tokens
    ELSE 0

\* What ::chrono::Utc::now() returns while the validation runs: a time with
\* column values before it and after it.
now == MaxNumber

\* An operand: a column, the length of a column, the current time, a literal;
\* `&` changes nothing.
eval_operand(ts, env) ==
    LET operand == SelectSeq(ts, LAMBDA t : t # "&")
    IN IF operand[1] \in DOMAIN env
       THEN IF Len(operand) = 2 /\ operand[2] = ".len()" THEN Len(env[operand[1]])
            ELSE env[operand[1]]
       ELSE IF operand[1] = "::chrono::Utc::now()" THEN now
       ELSE IF operand[1] = "\"\"" THEN ""
       ELSE literal_value(operand[1])

eval_comparison(ts, env) ==
    IF ts = <<"true">> THEN TRUE
    ELSE IF ts = <<"false">> THEN FALSE
    ELSE IF Len(ts) = 2 /\ ts[2] = ".is_none()" THEN env[ts[1]] = None
    ELSE IF Len(ts) = 2 /\ ts[2] = ".is_some()" THEN env[ts[1]] # None
    ELSE IF Len(ts) = 2 /\ ts[2] = ".is_empty()" THEN env[ts[1]] = ""
    ELSE LET i == Position(ts, {"==", "!=", "<", "<=", ">", ">="})
             left == eval_operand(SubSeq(ts, 1, i - 1), env)
             right == eval_operand(SubSeq(ts, i + 1, Len(ts)), env)
         IN CASE ts[i] = "==" -> left = right
              [] ts[i] = "!=" -> left # right
              [] ts[i] = "<" -> left < right
              [] ts[i] = "<=" -> left <= right
              [] ts[i] = ">" -> left > right
              [] ts[i] = ">=" -> left >= right

\* `&&` binds tighter than `||`, a comparison tighter than both.
RECURSIVE eval_and(_, _)
eval_and(ts, env) ==
    LET i == Position(ts, {"&&"})
    IN IF i = 0 THEN eval_comparison(ts, env)
       ELSE eval_comparison(SubSeq(ts, 1, i - 1), env)
              /\ eval_and(SubSeq(ts, i + 1, Len(ts)), env)

RECURSIVE eval_or(_, _)
eval_or(ts, env) ==
    LET i == Position(ts, {"||"})
    IN IF i = 0 THEN eval_and(ts, env)
       ELSE eval_and(SubSeq(ts, 1, i - 1), env) \/ eval_or(SubSeq(ts, i + 1, Len(ts)), env)

\* The value of a condition of the generated code.
RECURSIVE eval_condition(_, _)
eval_condition(ts, env) ==
    IF Len(ts) > 4 /\ ts[2] = ".as_ref()" /\ ts[3] \in {".is_some_and(", ".is_none_or("}
    THEN IF env[ts[1]] = None THEN ts[3] = ".is_none_or("
         ELSE eval_condition(SubSeq(ts, 5, Len(ts) - 1),
                             [env EXCEPT ![ts[1]] = env[ts[1]][1]])
    ELSE eval_or(ts, env)

\* The statements in their order: the first condition that holds returns its error.
RECURSIVE run_statements(_, _)
run_statements(statements, env) ==
    IF statements = <<>> THEN Ok
    ELSE IF eval_condition(Head(statements).cond, env) THEN Err(Head(statements).error)
    ELSE run_statements(Tail(statements), env)

\* The generated code on a row: `if let Some(..) = ..` around the statements.
run(code, row) ==
    IF \E c \in Range(code.if_let_some) : row[c] = None THEN Ok
    ELSE run_statements(code.statements,
                        [c \in DOMAIN row |->
                           IF c \in Range(code.if_let_some) THEN row[c][1] ELSE row[c]])

----------------------------------------------------------------------------
(* Compiling a check constraint and running what was generated.            *)

NumberValues == {Value("Number", NumberText(n)) : n \in Numbers}

IntegerOperands ==
    {Identifier("a"), Identifier("b"), Function("length", "name")} \cup NumberValues

TextOperands == {Identifier("name"), Value("SingleQuotedString", "")}

\* The comparisons of two operands of one type; text is compared for equality;
\* a column is compared with NOW().
Comparisons ==
    {BinaryOp(l, op, r) : l \in IntegerOperands, r \in IntegerOperands,
                          op \in ComparisonOperators}
      \cup {BinaryOp(Identifier("a"), op, Function("NOW", "")) : op \in ComparisonOperators}
      \cup {BinaryOp(l, op, r) : l \in TextOperands, r \in TextOperands,
                                 op \in {"Eq", "NotEq"}}

BooleanAtoms ==
    {Value("Boolean", "true"), Value("Boolean", "false"),
     BinaryOp(Identifier("a"), "Lt", Value("Number", NumberText(MaxNumber))),
     IsNull(Identifier("b"))}

Connectives(operands) ==
    {BinaryOp(l, op, r) : l \in operands, r \in operands, op \in {"And", "Or"}}

\* AND and OR, nested once, with and without parentheses.
Logicals ==
    LET inner == Connectives(BooleanAtoms)
    IN inner \cup Connectives(BooleanAtoms \cup inner \cup {Nested(e) : e \in inner})

\* Lines 31-73 of check_constraint.rs: the constraint is compiled.
ToSyn ==
    /\ translated = None
    /\ translated' = Some(to_syn)
    /\ UNCHANGED <<auxvars, cbvars, genvars, tlvars,
                   check_constraint, nullable_columns,
                   contextual_columns, validated, primary_key, surrogate_primary_key,
                   validations>>

\* The generated validate_column runs on a row.
ValidateColumn ==
    /\ translated # None
    /\ validated = None
    /\ translated[1].kind = "code"
    /\ \A i \in 1..Len(translated[1].statements) : translated[1].statements[i].kind = "if"
    /\ \E row \in Rows :
         validated' = Some([row |-> row, result |-> run(translated[1], row)])
    /\ UNCHANGED <<auxvars, cbvars, genvars, tlvars,
                   check_constraint, nullable_columns,
                   contextual_columns, translated, primary_key, surrogate_primary_key,
                   validations>>

\* A check constraint of the table, the nullable columns among its columns and
\* the context: column.rs passes the column under validation, which is the
\* only column of a constraint on one column.
InitCheckConstraint ==
    /\ check_constraint \in Comparisons \cup Logicals
    /\ nullable_columns \in SUBSET constraint_columns(check_constraint)
    /\ contextual_columns \in SUBSET constraint_columns(check_constraint)
    /\ Cardinality(contextual_columns) <= 1
    /\ Cardinality(constraint_columns(check_constraint)) = 1 => contextual_columns # {}
    /\ check_constraint \in Logicals => "a" \notin nullable_columns
    /\ translated = None
    /\ validated = None
    /\ primary_key = {}
    /\ surrogate_primary_key = FALSE
    /\ validations = None
    /\ foreign_keys = {}
    /\ root_tables = None
    /\ IdleGenerate
    /\ IdleClassifier
    /\ IdleAux

NextCheckConstraint == ToSyn \/ ValidateColumn

SpecCheckConstraint == InitCheckConstraint /\ [][NextCheckConstraint]_vars

----------------------------------------------------------------------------
(* Claims about compiled check constraints.                                *)

\* The SQL comparison on two values that are present.
SqlHolds(op, x, y) ==
    CASE op = "Eq" -> x = y
      [] op = "NotEq" -> x # y
      [] op = "Lt" -> x < y
      [] op = "LtEq" -> x <= y
      [] op = "Gt" -> x > y
      [] op = "GtEq" -> x >= y

\* `x OP y` and `y Mirrored(OP) x` are the same comparison.
Mirrored(op) ==
    CASE op = "Lt" -> "Gt"
      [] op = "LtEq" -> "GtEq"
      [] op = "Gt" -> "Lt"
      [] op = "GtEq" -> "LtEq"
      [] OTHER -> op

NumberOf(text) == CHOOSE n \in Numbers : NumberText(n) = text

Compiled == translated # None /\ translated[1] # Panic

\* The statement a constraint of one comparison compiles to.
Statement == translated[1].statements[1]

Validated == validated # None
Row == validated[1].row
Result == validated[1].result

\* `a OP lit` with a column or length(column) on the left.
IsOperandVersusLiteral ==
    /\ check_constraint.kind = "BinaryOp"
    /\ check_constraint.op \in {"Lt", "LtEq", "Gt", "GtEq", "NotEq"}
    /\ check_constraint.left.kind \in {"Identifier", "Function"}
    /\ check_constraint.right.kind = "Value"

\* C6, as the claim has it: whenever `a OP lit` compiles, a being a column or
\* length(column), `lit OP' a` with the mirrored operator compiles too, and to
\* the same error kind, table, column and threshold.
C6_MirroredComparisonCompilesAlike ==
    (Compiled /\ IsOperandVersusLiteral) =>
        LET mirrored == parse(BinaryOp(check_constraint.right,
                                       Mirrored(check_constraint.op),
                                       check_constraint.left))
        IN /\ mirrored # Panic
           /\ mirrored.kind = "if"
           /\ mirrored.error = Statement.error

\* C6 for a column on the left: `column OP lit` and `lit OP' column` compile
\* to the same statement.
C6_MirroredColumnComparison ==
    (Compiled /\ IsOperandVersusLiteral /\ check_constraint.left.kind = "Identifier") =>
        parse(BinaryOp(check_constraint.right, Mirrored(check_constraint.op),
                       check_constraint.left)) = Statement

\* `column OP number` with an ordering operator.
IsColumnVersusNumber ==
    /\ check_constraint.kind = "BinaryOp"
    /\ check_constraint.op \in {"Lt", "LtEq", "Gt", "GtEq"}
    /\ check_constraint.left.kind = "Identifier"
    /\ check_constraint.right.kind = "Value"
    /\ check_constraint.right.variant = "Number"

SingleFieldError(op) ==
    CASE op = "LtEq" -> "smaller_than_value"
      [] op = "Lt" -> "strictly_smaller_than_value"
      [] op = "Gt" -> "strictly_greater_than_value"
      [] op = "GtEq" -> "greater_than_value"

\* C7: the validation generated for `col OP lit`, OP one of <=, <, >, >=,
\* accepts the values of col for which the SQL comparison holds and returns
\* for every other value the error of OP's kind, with the table, the column
\* and lit as threshold.
C7_SingleColumnValidation ==
    (Validated /\ IsColumnVersusNumber) =>
        LET col == check_constraint.left.value
            lit == NumberOf(check_constraint.right.value)
        IN IF SqlHolds(check_constraint.op, Row[col], lit) THEN Result = Ok
           ELSE /\ Result.kind = "Err"
                /\ Result.error.name = SingleFieldError(check_constraint.op)
                /\ Result.error.table = table_name
                /\ Result.error.columns = <<col>>
                /\ literal_value(Result.error.threshold[1]) = lit

\* `col < lit` has rejected the value that equals lit.
C7_Witness ==
    /\ Validated /\ IsColumnVersusNumber
    /\ check_constraint.op = "Lt"
    /\ Row[check_constraint.left.value] = NumberOf(check_constraint.right.value)
    /\ Result.kind = "Err"

\* `left OP right` between two columns.
IsColumnVersusColumn ==
    /\ check_constraint.kind = "BinaryOp"
    /\ check_constraint.op \in {"Lt", "LtEq", "Gt", "GtEq", "NotEq"}
    /\ check_constraint.left.kind = "Identifier"
    /\ check_constraint.right.kind = "Identifier"

\* The test that is the negation of the operator.
NegatedTest(op) ==
    CASE op = "Lt" -> ">="
      [] op = "LtEq" -> ">"
      [] op = "Gt" -> "<="
      [] op = "GtEq" -> "<"
      [] op = "NotEq" -> "=="

DoubleFieldError(op) ==
    CASE op = "Lt" -> "strictly_smaller_than"
      [] op = "LtEq" -> "smaller_than"
      [] op = "Gt" -> "strictly_greater_than"
      [] op = "GtEq" -> "greater_than"
      [] op = "NotEq" -> "equal"

\* Some(the value of a column in the row), None when it is unset or NULL.
Present(ident) ==
    IF is_contextual_column(ident) THEN Some(Row[ident])
    ELSE IF Row[ident] = None THEN None
    ELSE IF is_nullable(ident) THEN Row[ident][1]
    ELSE Some(Row[ident][1])

\* C8: the code generated for `a OP b` tests `a NOT-OP b` on the two columns
\* and returns, when that test holds, the relational error of OP with the
\* table and both column names in the order of the source.
C8_TwoColumnNegation ==
    (Compiled /\ IsColumnVersusColumn) =>
        LET left == check_constraint.left.value
            right == check_constraint.right.value
            op == check_constraint.op
        IN /\ Statement.kind = "if"
           /\ \E i \in 1..(Len(Statement.cond) - 2) :
                SubSeq(Statement.cond, i, i + 2) = <<left, NegatedTest(op), right>>
           /\ Statement.error = ValidationError(DoubleFieldError(op), <<left, right>>, None)
           /\ (Validated /\ Present(left) # None /\ Present(right) # None) =>
                (Result = IF SqlHolds(op, Present(left)[1], Present(right)[1])
                          THEN Ok ELSE Err(Statement.error))

\* `a < b` has been validated on two equal values and has rejected them.
C8_Witness ==
    /\ Validated /\ IsColumnVersusColumn
    /\ check_constraint.op = "Lt"
    /\ check_constraint.left # check_constraint.right
    /\ Present(check_constraint.left.value) = Present(check_constraint.right.value)
    /\ Present(check_constraint.left.value) # None
    /\ Result.kind = "Err"

\* The operands that are nullable and not in the context.
OptionalOperands ==
    {c \in {check_constraint.left.value, check_constraint.right.value} :
       is_nullable(c) /\ ~is_contextual_column(c)}

\* C9: in a comparison of two columns, the validation returns no error when
\* an operand that is nullable and not in the context has no value; an error
\* is returned only with every such operand present and the comparison
\* violated.
C9_NullNeverViolates ==
    (Validated /\ IsColumnVersusColumn) =>
        /\ (\E c \in OptionalOperands : Present(c) = None) => Result = Ok
        /\ Result.kind = "Err" =>
             /\ \A c \in OptionalOperands : Present(c) # None
             /\ ~SqlHolds(check_constraint.op,
                          Present(check_constraint.left.value)[1],
                          Present(check_constraint.right.value)[1])

\* Two nullable columns outside the context: the left one is set to NULL, the
\* right one has a value, and the validation accepts the row.
C9_Witness ==
    /\ Validated /\ IsColumnVersusColumn
    /\ Cardinality(OptionalOperands) = 2
    /\ Row[check_constraint.left.value] = Some(None)
    /\ Present(check_constraint.right.value) # None
    /\ Result = Ok

IsConnective ==
    check_constraint.kind = "BinaryOp" /\ check_constraint.op \in {"And", "Or"}

\* The code of the two operands.
LeftCode == inner_parse(check_constraint.left, None)
RightCode == inner_parse(check_constraint.right, None)

Literals == {<<"true">>, <<"false">>}

HasLiteralOperand ==
    /\ LeftCode # Panic /\ RightCode # Panic
    /\ LeftCode.code \in Literals \/ RightCode.code \in Literals

\* false AND x = x AND false = false, true AND x = x AND true = x,
\* true OR x = x OR true = true, false OR x = x OR false = x.
Simplification(op, left, right) ==
    LET absorbing == IF op = "And" THEN <<"false">> ELSE <<"true">>
    IN IF left = absorbing \/ right = absorbing THEN absorbing
       ELSE IF left \in Literals THEN right
       ELSE left

Fold(op, left, right) == IF op = "And" THEN and_fold(left, right) ELSE or_fold(left, right)

\* The rows with every column set, as the generated code sees them inside
\* its `if let Some(..)`.
BoundRows ==
    {[c \in DOMAIN row |-> IF is_contextual_column(c) THEN row[c] ELSE row[c][1]] :
       row \in {r \in Rows : \A c \in DOMAIN r : is_contextual_column(c) \/ r[c] # None}}

\* C10: when the code of an operand of AND or OR is literally `true` or
\* `false`, the compiled code is the simplification; it has the truth value
\* of the conjunction (disjunction) of the operands' codes on every row; and
\* folding it once more with the same literal returns it unchanged.
C10_ConstantFolding ==
    (Compiled /\ IsConnective /\ HasLiteralOperand) =>
        LET op == check_constraint.op
            left == LeftCode.code
            right == RightCode.code
            folded == Statement.code
        IN /\ Statement.kind = "try"
           /\ folded = Simplification(op, left, right)
           /\ \A env \in BoundRows :
                eval_condition(folded, env)
                  = IF op = "And"
                    THEN eval_condition(left, env) /\ eval_condition(right, env)
                    ELSE eval_condition(left, env) \/ eval_condition(right, env)
           /\ left \in Literals => Fold(op, left, folded) = folded
           /\ right \in Literals => Fold(op, folded, right) = folded

\* `true AND x` has been compiled to x, x being a disjunction of two
\* conditions on columns.
C10_Witness ==
    /\ Compiled /\ IsConnective /\ HasLiteralOperand
    /\ check_constraint.op = "And"
    /\ LeftCode.code = <<"true">>
    /\ Statement.code = <<"a", "<", cast("i32", NumberText(MaxNumber)), "||", "b", ".is_none()">>

----------------------------------------------------------------------------
(* The validations of a column (column.rs, generate_validation_impl).      *)

\* `(x IS NULL AND y IS NULL) OR (x IS NOT NULL AND y IS NOT NULL)`.
MutualNullability(x, y) ==
    BinaryOp(Nested(BinaryOp(IsNull(Identifier(x)), "And", IsNull(Identifier(y)))),
             "Or",
             Nested(BinaryOp(IsNotNull(Identifier(x)), "And", IsNotNull(Identifier(y)))))

\* check_constraint.is_mutual_nullability_constraint(database): the columns
\* of the constraint are NULL together or set together.
is_mutual_nullability_constraint(expr) ==
    \E x, y \in Range(ColumnNames) : x # y /\ expr = MutualNullability(x, y)

\* table.has_surrogate_primary_key(database).
has_surrogate_primary_key == surrogate_primary_key

\* column.is_primary_key(database).
is_primary_key(ident) == ident \in primary_key

\* Lines 465-478: the constraints on at most one column.
generate_context_less_validations ==
    IF Cardinality(constraint_columns(check_constraint)) > 1 THEN <<>>
    ELSE <<to_syn>>

\* Lines 429-458: the constraints on several columns, except the mutual
\* nullability constraints and, in a table with a surrogate primary key, the
\* constraints on a column of the primary key.
generate_contextual_validations ==
    IF Cardinality(constraint_columns(check_constraint)) <= 1 THEN <<>>
    ELSE IF is_mutual_nullability_constraint(check_constraint) THEN <<>>
    ELSE IF \E column \in constraint_columns(check_constraint) :
               is_primary_key(column) /\ has_surrogate_primary_key
    THEN <<>>
    ELSE <<to_syn>>

\* Lines 488-560: validate_column with the context-less validations and
\* validate_column_in_context with the contextual ones, each left out when it
\* would be empty.
generate_validation_impl ==
    LET context_less_validations == generate_context_less_validations
        contextual_validations == generate_contextual_validations
    IN IF Panic \in Range(context_less_validations) \cup Range(contextual_validations)
       THEN Panic
       ELSE [kind |-> "impl",
             validate_column |->
                 IF context_less_validations = <<>> THEN None
                 ELSE Some(context_less_validations),
             validate_column_in_context |->
                 IF contextual_validations = <<>> THEN None
                 ELSE Some([include_context_less_call |-> context_less_validations # <<>>,
                            validations |-> contextual_validations])]

\* The operands of the constraints: columns of two types and literals.
TypedOperands ==
    {Identifier("a"), Identifier("b"), Identifier("name"),
     Value("SingleQuotedString", "")} \cup NumberValues

Arithmetics ==
    {BinaryOp(l, op, r) : l \in {Identifier("a"), Identifier("b"), Identifier("name")},
                          r \in {Identifier("a"), Identifier("b"), Identifier("name")},
                          op \in ArithmeticOperators}

NullTests(idents) ==
    {IsNull(Identifier(c)) : c \in idents} \cup {IsNotNull(Identifier(c)) : c \in idents}

\* Comparisons of operands of equal and of different types, comparisons of an
\* arithmetic operation, IS [NOT] NULL tests alone and joined by AND and OR,
\* and a mutual nullability constraint.
TypedConstraints ==
    {BinaryOp(l, op, r) : l \in TypedOperands, r \in TypedOperands,
                          op \in ComparisonOperators}
      \cup {BinaryOp(l, op, r) : l \in Arithmetics, op \in {"Gt", "Eq"},
                                 r \in {Identifier("a"), Identifier("name"),
                                        Value("Number", NumberText(0))}}
      \cup NullTests(Range(ColumnNames))
      \cup Connectives(NullTests({"a", "b"}))
      \cup {MutualNullability("a", "b")}

\* generate_validation_impl of the column of the context.
GenerateValidationImpl ==
    /\ validations = None
    /\ validations' = Some(generate_validation_impl)
    /\ UNCHANGED <<auxvars, cbvars, genvars, tlvars,
                   check_constraint, nullable_columns, contextual_columns,
                   translated, validated, primary_key, surrogate_primary_key>>

\* A non-tautological check constraint of the table, and the column whose
\* validations are generated: one of the columns of the constraint.
InitValidations ==
    /\ check_constraint \in TypedConstraints
    /\ nullable_columns \in SUBSET constraint_columns(check_constraint)
    /\ \E self \in constraint_columns(check_constraint) : contextual_columns = {self}
    /\ primary_key \in SUBSET ({"a"} \ nullable_columns)
    /\ surrogate_primary_key \in {s \in BOOLEAN : s => primary_key # {}}
    /\ translated = None
    /\ validated = None
    /\ validations = None
    /\ foreign_keys = {}
    /\ root_tables = None
    /\ IdleGenerate
    /\ IdleClassifier
    /\ IdleAux

NextValidations == ToSyn \/ GenerateValidationImpl

SpecValidations == InitValidations /\ [][NextValidations]_vars

----------------------------------------------------------------------------
(* Claims about the validations of a column.                               *)

Generated == validations # None

\* C11: every non-tautological check constraint on a column either puts
\* validation code into the validations generated for the column or makes
\* the generation fail; none is left out without a failure.
C11_ConstraintCompiledOrFatal ==
    Generated =>
        \/ validations[1] = Panic
        \/ validations[1].validate_column # None
        \/ validations[1].validate_column_in_context # None

\* What holds instead: the constraints left out without a failure are the
\* mutual nullability constraints and, in a table with a surrogate primary
\* key, the constraints on several columns that name a primary key column.
C11_LeftOutConstraints ==
    (Generated /\ validations[1] # Panic) =>
        ((validations[1].validate_column = None
            /\ validations[1].validate_column_in_context = None)
         <=> /\ Cardinality(constraint_columns(check_constraint)) > 1
             /\ \/ is_mutual_nullability_constraint(check_constraint)
                \/ surrogate_primary_key
                      /\ constraint_columns(check_constraint) \cap primary_key # {})

\* The type of an operand that has one of its own: a number takes the type of
\* what it is compared with.
OperandType(expr) ==
    CASE expr.kind = "Identifier" -> Some(column_type(expr.value))
      [] expr.kind = "Value" /\ expr.variant = "SingleQuotedString" -> Some("String")
      [] expr.kind = "Value" /\ expr.variant = "Boolean" -> Some("bool")
      [] OTHER -> None

IsComparison == check_constraint.kind = "BinaryOp" /\ check_constraint.op \in ComparisonOperators

IsArithmetic(expr) == expr.kind = "BinaryOp" /\ expr.op \in ArithmeticOperators

Mismatched(left, right) ==
    /\ OperandType(left) # None
    /\ OperandType(right) # None
    /\ OperandType(left) # OperandType(right)

\* An arithmetic operation on operands of different types or of a type that
\* is not numeric.
IllTyped(expr) ==
    \/ Mismatched(expr.left, expr.right)
    \/ OperandType(expr.left) # None /\ ~is_numeric(OperandType(expr.left)[1])

Aborted == translated # None /\ translated[1] = Panic

\* C12: a comparison or an arithmetic operation on operands of different
\* types, or an arithmetic operation on a type that is not numeric, aborts the
\* compilation; a well-typed arithmetic operation has the type of its operands.
C12_MismatchedTypesAbort ==
    (translated # None /\ IsComparison) =>
        LET left == check_constraint.left
            right == check_constraint.right
        IN IF IsArithmetic(left)
           THEN IF IllTyped(left) THEN Aborted
                ELSE /\ inner_parse(left, None).type = OperandType(left.left)
                     /\ Mismatched(left.left, right) => Aborted
           ELSE Mismatched(left, right) => Aborted

\* What holds instead: the types are compared wherever inner_parse compiles
\* the operation, which is where map_expr_to_validation_error has no arm for it.
C12_TypesCheckedByInnerParse ==
    (translated # None /\ IsComparison
       /\ map_expr_to_validation_error(check_constraint) = None) =>
        LET left == check_constraint.left
            right == check_constraint.right
        IN IF IsArithmetic(left)
           THEN IF IllTyped(left) THEN Aborted
                ELSE /\ inner_parse(left, None).type = OperandType(left.left)
                     /\ Mismatched(left.left, right) => Aborted
           ELSE Mismatched(left, right) => Aborted

IsColumnNullTest(expr) ==
    expr.kind \in {"IsNull", "IsNotNull"} /\ expr.expr.kind = "Identifier"

\* What the claim gives for a test on a nullable column.
ExpectedNullTest(expr) ==
    IF is_contextual_column(expr.expr.value)
    THEN IF expr.kind = "IsNull" THEN <<"false">> ELSE <<"true">>
    ELSE <<expr.expr.value, IF expr.kind = "IsNull" THEN ".is_none()" ELSE ".is_some()">>

\* The IS [NOT] NULL tests of the constraint: the constraint itself, or the
\* two operands of an AND or an OR.
ColumnNullTests ==
    IF IsColumnNullTest(check_constraint) THEN <<check_constraint>>
    ELSE IF /\ check_constraint.kind = "BinaryOp"
            /\ check_constraint.op \in {"And", "Or"}
            /\ IsColumnNullTest(check_constraint.left)
            /\ IsColumnNullTest(check_constraint.right)
    THEN <<check_constraint.left, check_constraint.right>>
    ELSE <<>>

\* C13: IS [NOT] NULL on a column that is not nullable aborts the compilation;
\* on a nullable column of the context it compiles to false (IS NULL) or true
\* (IS NOT NULL), on another nullable column to a test of its presence.
C13_NullTestOnColumn ==
    (translated # None /\ ColumnNullTests # <<>>) =>
        IF \E i \in 1..Len(ColumnNullTests) : ~is_nullable(ColumnNullTests[i].expr.value)
        THEN Aborted
        ELSE /\ ~Aborted
             /\ translated[1].statements =
                  <<Try(IF Len(ColumnNullTests) = 1
                        THEN ExpectedNullTest(ColumnNullTests[1])
                        ELSE Fold(check_constraint.op,
                                  ExpectedNullTest(ColumnNullTests[1]),
                                  ExpectedNullTest(ColumnNullTests[2])))>>

\* `a IS NULL OR b IS NOT NULL` compiled for the nullable column a, with b
\* nullable too: false for a, a presence test for b.
C13_Witness ==
    /\ translated # None
    /\ check_constraint = BinaryOp(IsNull(Identifier("a")), "Or", IsNotNull(Identifier("b")))
    /\ nullable_columns = {"a", "b"}
    /\ contextual_columns = {"a"}
    /\ translated[1].statements = <<Try(<<"b", ".is_some()">>)>>

----------------------------------------------------------------------------
(* The horizontal same-as decorators of a column.                          *)

\* unimplemented!(...) and unreachable!(...): a panic with its message.
Unimplemented(message) == [kind |-> "panic", message |-> message]
Unreachable == [kind |-> "panic", message |-> <<"unreachable">>]

\* #[same_as(satellite_crate::satellite_table::referenced_column, key)].
SameAsDecorator(same_as, key) ==
    [satellite_table |-> same_as.referenced_table,
     referenced_column |-> same_as.referenced_columns[2],
     key |-> key]

\* A loop that passes over the foreign keys that are not binary.
RECURSIVE generate_horizontal_same_as_decorators_binary_only_from(_, _, _, _)
generate_horizontal_same_as_decorators_binary_only_from(self, same_as_fks, i, acc) ==
    IF i > Len(same_as_fks) THEN [kind |-> "decorators", value |-> acc]
    ELSE LET same_as == same_as_fks[i]
             next(out) == generate_horizontal_same_as_decorators_binary_only_from(
                              self, same_as_fks, i + 1, out)
         IN IF Len(same_as.host_columns) # 2 \/ Len(same_as.referenced_columns) # 2
            THEN next(acc)
            ELSE IF ~same_as.is_horizontal_same_as_of_triangular THEN next(acc)
            ELSE IF same_as.host_columns[1] = self THEN next(acc)
            ELSE IF same_as.host_columns[2] # self THEN Unreachable
            ELSE next(Append(acc, SameAsDecorator(same_as, same_as.host_columns[1])))
generate_horizontal_same_as_decorators_binary_only(self, same_as_fks) ==
    generate_horizontal_same_as_decorators_binary_only_from(self, same_as_fks, 1, <<>>)

\* The loop of generate_horizontal_same_as_decorators from its i-th foreign
\* key on, with the decorators pushed so far.
RECURSIVE generate_horizontal_same_as_decorators_from(_, _, _, _)
generate_horizontal_same_as_decorators_from(self, same_as_fks, i, acc) ==
    IF i > Len(same_as_fks) THEN [kind |-> "decorators", value |-> acc]
    ELSE LET same_as == same_as_fks[i]
             next(out) == generate_horizontal_same_as_decorators_from(
                              self, same_as_fks, i + 1, out)
         IN IF Len(same_as.host_columns) # 2
            THEN Unimplemented(<<same_as.host_table, same_as.referenced_table,
                                 Len(same_as.host_columns), same_as.host_columns>>)
            ELSE IF Len(same_as.referenced_columns) # 2 THEN Unreachable
            ELSE IF ~same_as.is_horizontal_same_as_of_triangular THEN next(acc)
            ELSE IF same_as.host_columns[1] = self THEN next(acc)
            ELSE IF same_as.host_columns[2] # self THEN Unreachable
            ELSE next(Append(acc, SameAsDecorator(same_as, same_as.host_columns[1])))

generate_horizontal_same_as_decorators(self, same_as_fks) ==
    generate_horizontal_same_as_decorators_from(self, same_as_fks, 1, <<>>)

\* The foreign keys of the host table t1 that may be classified as horizontal
\* same-as: of one, two and three host columns, with as many referenced
\* columns.
HostColumnLists == {<<"key">>, <<"key", "value">>, <<"value", "key">>,
                    <<"key", "value", "third">>}
ReferencedColumnsFor(host_columns) ==
    SubSeq(<<"key2", "value2", "third2">>, 1, Len(host_columns))
SameAsForeignKeys ==
    {[host_table |-> "t1", referenced_table |-> r, host_columns |-> h,
      referenced_columns |-> ReferencedColumnsFor(h),
      is_horizontal_same_as_of_triangular |-> tri] :
        r \in {"t2", "t3"}, h \in HostColumnLists, tri \in BOOLEAN}

GenerateHorizontalSameAsDecorators ==
    /\ decorators = None
    /\ decorators' = Some(generate_horizontal_same_as_decorators(same_as_column[1],
                                                                  same_as_foreign_keys))
    /\ UNCHANGED <<genvars, tlvars, exprvars, cbvars, depvars, dfvars, same_as_column,
                   same_as_foreign_keys>>

\* A column of t1 and the foreign keys horizontal_same_as_foreign_keys gives
\* for it, each of which has the column among its host columns.
InitSameAs ==
    /\ same_as_column \in {Some("key"), Some("value")}
    /\ same_as_foreign_keys \in
          UNION {[1..n -> {fk \in SameAsForeignKeys :
                             \E i \in 1..Len(fk.host_columns) :
                                fk.host_columns[i] = same_as_column[1]}] :
                   n \in 0..MaxSameAs}
    /\ decorators = None
    /\ foreign_keys = {}
    /\ root_tables = None
    /\ IdleGenerate
    /\ IdleClassifier
    /\ IdleCompiler
    /\ IdleTomlDependency
    /\ IdleDefaults

NextSameAs == GenerateHorizontalSameAsDecorators

SpecSameAs == InitSameAs /\ [][NextSameAs]_vars

----------------------------------------------------------------------------
(* Claims about the horizontal same-as decorators.                         *)

\* The foreign keys of a column that do not have two host columns.
NotBinary == {i \in 1..Len(same_as_foreign_keys) :
                Len(same_as_foreign_keys[i].host_columns) # 2}
FirstNotBinary ==
    same_as_foreign_keys[CHOOSE i \in NotBinary : \A j \in NotBinary : i <= j]

\* C24: when a horizontal same-as foreign key of the column does not have
\* exactly two host columns, the generation of the decorators fails with a
\* message that names the host table, the referenced table and the host
\* columns of that foreign key; it gives no list of decorators, neither an
\* empty one nor one built from a part of the columns.
C24_NotBinarySameAsReported ==
    (decorators # None /\ NotBinary # {}) =>
        /\ decorators[1].kind = "panic"
        /\ decorators[1].message = <<FirstNotBinary.host_table,
                                     FirstNotBinary.referenced_table,
                                     Len(FirstNotBinary.host_columns),
                                     FirstNotBinary.host_columns>>

\* The decorators of the column `value` were asked for with a binary foreign
\* key that gives a decorator followed by one of three host columns.
C24_Witness ==
    /\ decorators # None
    /\ same_as_column = Some("value")
    /\ Len(same_as_foreign_keys) = 2
    /\ same_as_foreign_keys[1].host_columns = <<"key", "value">>
    /\ same_as_foreign_keys[1].is_horizontal_same_as_of_triangular
    /\ Len(same_as_foreign_keys[2].host_columns) = 3

----------------------------------------------------------------------------
(* TomlDependency: its builder operations and its rendered form.           *)

\* TomlDependency::new(name).
new(name) ==
    [name |-> name, version |-> None, git |-> None, branch |-> None, features |-> <<>>,
     optional |-> FALSE, workspace |-> FALSE, default_features |-> None, path |-> None]

\* Error::InvalidTomlDependency(message) and Ok(self).
InvalidTomlDependency(message) == [kind |-> "Err", error |-> message]
OkDependency(self) == [kind |-> "Ok", value |-> self]

version(self, v) ==
    IF self.workspace
    THEN InvalidTomlDependency("Cannot set version for a workspace dependency")
    ELSE OkDependency([self EXCEPT !.version = Some(v)])

git(self, g, b) ==
    IF self.workspace
    THEN InvalidTomlDependency("Cannot set git for a workspace dependency")
    ELSE OkDependency([self EXCEPT !.git = Some(g), !.branch = b])

feature(self, f) == [self EXCEPT !.features = Append(self.features, f)]

optional(self, o) == [self EXCEPT !.optional = o]

dependency_workspace(self, w) ==
    IF w /\ self.version # None
    THEN InvalidTomlDependency("Cannot set workspace to true when version is set")
    ELSE IF w /\ self.git # None
    THEN InvalidTomlDependency("Cannot set workspace to true when git is set")
    ELSE IF w /\ self.branch # None
    THEN InvalidTomlDependency("Cannot set workspace to true when branch is set")
    ELSE IF w /\ self.path # None
    THEN InvalidTomlDependency("Cannot set workspace to true when path is set")
    ELSE OkDependency([self EXCEPT !.workspace = w])

default_features(self, d) == [self EXCEPT !.default_features = Some(d)]

\* A path set without looking at the workspace flag.
path_unchecked(self, p) == OkDependency([self EXCEPT !.path = Some(p)])

path(self, p) ==
    IF self.workspace
    THEN InvalidTomlDependency("Cannot set path for a workspace dependency")
    ELSE OkDependency([self EXCEPT !.path = Some(p)])

into_workspace_dependency(self) ==
    [self EXCEPT !.workspace = TRUE, !.version = None, !.git = None, !.branch = None,
                 !.path = None]

\* parts.join(", ").
RECURSIVE join(_)
join(parts) ==
    IF parts = <<>> THEN <<>>
    ELSE IF Len(parts) = 1 THEN <<parts[1]>>
    ELSE <<parts[1], ", ">> \o join(Tail(parts))

\* The parts of the rendered form, each pushed when its attribute is set.
version_part(self) ==
    IF self.version # None THEN <<<<"version", self.version[1]>>>> ELSE <<>>
git_part(self) == IF self.git # None THEN <<<<"git", self.git[1]>>>> ELSE <<>>
branch_part(self) == IF self.branch # None THEN <<<<"branch", self.branch[1]>>>> ELSE <<>>
path_part(self) == IF self.path # None THEN <<<<"path", self.path[1]>>>> ELSE <<>>
features_part(self) ==
    IF self.features # <<>> THEN <<<<"features", join(self.features)>>>> ELSE <<>>
optional_part(self) == IF self.optional THEN <<<<"optional", TRUE>>>> ELSE <<>>
default_features_part(self) ==
    IF self.default_features # None
    THEN <<<<"default-features", self.default_features[1]>>>> ELSE <<>>

\* A rendered form with the path before the version.
fmt_path_first(self) ==
    IF self.workspace THEN <<self.name, ".workspace = true">>
    ELSE <<self.name, " = { ">>
           \o join(path_part(self) \o version_part(self) \o git_part(self)
                     \o branch_part(self) \o features_part(self) \o optional_part(self)
                     \o default_features_part(self))
           \o <<" }">>

\* impl Display for TomlDependency.
fmt(self) ==
    IF self.workspace THEN <<self.name, ".workspace = true">>
    ELSE <<self.name, " = { ">>
           \o join(version_part(self) \o git_part(self) \o branch_part(self)
                     \o path_part(self) \o features_part(self) \o optional_part(self)
                     \o default_features_part(self))
           \o <<" }">>

\* The values the operations are called with.
Branches == {None, Some("main")}
FeatureNames == {"f1", "f2"}

\* A call of a fallible operation on a clone of the dependency: the
\* dependency is replaced when the call gives Ok, and kept when it gives Err.
Fallible(op, outcome) ==
    /\ called' = [op |-> op, kind |-> outcome.kind]
    /\ dependency' = IF outcome.kind = "Ok" THEN outcome.value ELSE dependency
    /\ rendered' = None
    /\ UNCHANGED <<genvars, tlvars, exprvars, cbvars, savars, dfvars>>

Infallible(op, value) ==
    /\ called' = [op |-> op, kind |-> "Ok"]
    /\ dependency' = value
    /\ rendered' = None
    /\ UNCHANGED <<genvars, tlvars, exprvars, cbvars, savars, dfvars>>

Version ==
    /\ dependency # None
    /\ Fallible("version", version(dependency, "1.0"))

Git ==
    /\ dependency # None
    /\ \E b \in Branches : Fallible("git", git(dependency, "url", b))

Path ==
    /\ dependency # None
    /\ Fallible("path", path(dependency, "../local"))

Workspace ==
    /\ dependency # None
    /\ \E w \in BOOLEAN :
         Fallible(IF w THEN "workspace(true)" ELSE "workspace(false)",
                  dependency_workspace(dependency, w))

IntoWorkspaceDependency ==
    /\ dependency # None
    /\ Infallible("into_workspace_dependency", into_workspace_dependency(dependency))

Feature ==
    /\ dependency # None
    /\ Len(dependency.features) < MaxFeatures
    /\ \E f \in FeatureNames : Infallible("feature", feature(dependency, f))

Optional ==
    /\ dependency # None
    /\ \E o \in BOOLEAN : Infallible("optional", optional(dependency, o))

DefaultFeatures ==
    /\ dependency # None
    /\ \E d \in BOOLEAN : Infallible("default_features", default_features(dependency, d))

\* dependency.to_string().
Display ==
    /\ dependency # None
    /\ rendered = None
    /\ rendered' = Some(fmt(dependency))
    /\ UNCHANGED <<genvars, tlvars, exprvars, cbvars, savars, dfvars, dependency, called>>

InitTomlDependency ==
    /\ dependency = new("serde")
    /\ called = [op |-> "new", kind |-> "Ok"]
    /\ rendered = None
    /\ foreign_keys = {}
    /\ root_tables = None
    /\ IdleGenerate
    /\ IdleClassifier
    /\ IdleCompiler
    /\ IdleSameAs
    /\ IdleDefaults

NextTomlDependency ==
    \/ Version
    \/ Git
    \/ Path
    \/ Workspace
    \/ IntoWorkspaceDependency
    \/ Feature
    \/ Optional
    \/ DefaultFeatures
    \/ Display

SpecTomlDependency == InitTomlDependency /\ [][NextTomlDependency]_vars

----------------------------------------------------------------------------
(* Claims about TomlDependency.                                            *)

Sourced == {a \in {"version", "git", "branch", "path"} : dependency[a] # None}

\* C25: after any sequence of successful builder operations a dependency
\* with workspace = true has no version, no git, no branch and no path;
\* version, git and path give an error on a workspace dependency and succeed
\* on any other, and workspace(true) gives an error exactly when one of
\* version, git, branch and path is set.
C25_WorkspaceDependencyHasNoSource ==
    /\ dependency.workspace => Sourced = {}
    /\ called.op \in {"version", "git", "path"} =>
          (called.kind = "Err" <=> dependency.workspace)
    /\ (called.op \in {"version", "git", "path"} /\ called.kind = "Ok") =>
          dependency[called.op] # None
    /\ called.op = "workspace(true)" =>
          /\ called.kind = "Err" <=> Sourced # {}
          /\ called.kind = "Ok" <=> dependency.workspace
    /\ called.op = "workspace(false)" =>
          called.kind = "Ok" /\ ~dependency.workspace
    /\ called.op = "into_workspace_dependency" => dependency.workspace

\* path was refused on a workspace dependency that holds features.
C25_Witness ==
    /\ called = [op |-> "path", kind |-> "Err"]
    /\ dependency.workspace
    /\ dependency.features # <<>>

\* The parts of a rendered form, without the separators, and the rank of a
\* part in the fixed order.
RenderedParts ==
    LET body == SubSeq(rendered[1], 3, Len(rendered[1]) - 1)
    IN [i \in 1..((Len(body) + 1) \div 2) |-> body[2 * i - 1]]
Rank(part) ==
    CASE part[1] = "version" -> 1
      [] part[1] = "git" -> 2
      [] part[1] = "branch" -> 3
      [] part[1] = "path" -> 4
      [] part[1] = "features" -> 5
      [] part[1] = "optional" -> 6
      [] part[1] = "default-features" -> 7

\* The attributes that are set, by their names in the rendered form.
SetAttributes ==
    Sourced
    \cup (IF dependency.features # <<>> THEN {"features"} ELSE {})
    \cup (IF dependency.optional THEN {"optional"} ELSE {})
    \cup (IF dependency.default_features # None THEN {"default-features"} ELSE {})

\* Features of a rendered part: the names without the separators.
RenderedFeatures(part) ==
    [i \in 1..((Len(part[2]) + 1) \div 2) |-> part[2][2 * i - 1]]

\* C26: the rendered form of a dependency that is not a workspace
\* dependency is `name = { parts }` where the parts, separated by ", ", are
\* exactly the attributes that are set, in the order version, git, branch,
\* path, features, optional, default-features, with the features in the
\* order of their insertion; a workspace dependency is rendered as
\* `name.workspace = true`.
C26_RenderedInFixedOrder ==
    rendered # None =>
        IF dependency.workspace
        THEN rendered[1] = <<dependency.name, ".workspace = true">>
        ELSE /\ rendered[1][1] = dependency.name
             /\ rendered[1][2] = " = { "
             /\ rendered[1][Len(rendered[1])] = " }"
             /\ Len(rendered[1]) = 3 + (IF SetAttributes = {} THEN 0
                                        ELSE 2 * Cardinality(SetAttributes) - 1)
             /\ \A i \in 1..(Len(rendered[1]) - 3) :
                   i % 2 = 0 => rendered[1][2 + i] = ", "
             /\ {RenderedParts[i][1] : i \in 1..Len(RenderedParts)} = SetAttributes
             /\ \A i, j \in 1..Len(RenderedParts) :
                   i < j => Rank(RenderedParts[i]) < Rank(RenderedParts[j])
             /\ \A i \in 1..Len(RenderedParts) :
                   LET part == RenderedParts[i] IN
                   CASE part[1] \in {"version", "git", "branch", "path"} ->
                          part[2] = dependency[part[1]][1]
                     [] part[1] = "features" ->
                          RenderedFeatures(part) = dependency.features
                     [] part[1] = "optional" -> part[2] = TRUE
                     [] part[1] = "default-features" ->
                          part[2] = dependency.default_features[1]

\* The rendered form of a dependency whose path was set before its version
\* and whose two features were added before both.
C26_Witness ==
    /\ rendered # None
    /\ called = [op |-> "version", kind |-> "Ok"]
    /\ dependency.path # None /\ dependency.git # None /\ dependency.branch # None
    /\ dependency.features = <<"f2", "f1">>
    /\ dependency.default_features = Some(FALSE)

-----------------------------------------------------------------------------
(* The default decorations that table lists seed (sql_relations,           *)
(* TableListLike::columns_referring_to_table_lists, and the module of a    *)
(* table that extends a table with such a column).                         *)

\* column.foreign_keys(database): the foreign keys of the table that lie on
\* the column.
column_foreign_keys(table, column) ==
    {fk \in foreign_keys : fk[1] = table /\ host_column[fk] = column}

\* The filter without the classifier: every column with a foreign key.
columns_referring_to_tables(table) ==
    LET refers(column) == column_foreign_keys(table, column) # {}
    IN SelectSeq([i \in 1..number_of_columns(table) |-> i], refers)

\* Lines 102-112: the columns of the table with a foreign key whose
\* referenced table is a table list, in the order of the columns.
columns_referring_to_table_lists(table) ==
    LET refers(column) ==
            \E fk \in column_foreign_keys(table, column) : is_table_list_like(fk[2])
    IN SelectSeq([i \in 1..number_of_columns(table) |-> i], refers)

\* The default decorations of the module of a table: one for each column,
\* of a table it extends, that refers to a table list, seeded with the name
\* of the table.
table_list_defaults(table) ==
    {[column |-> <<ancestor, columns_referring_to_table_lists(ancestor)[i]>>,
      value |-> table] :
        <<ancestor, i>> \in
            {<<a, j>> \in ancestral_extended_tables(table) \X (1..MaxColumns) :
                j <= Len(columns_referring_to_table_lists(a))}}

\* The module of a table is assembled.
GenerateTableListDefaults ==
    /\ decorated = None
    /\ \E table \in Tables :
         /\ decorated' = Some(table)
         /\ default_decorators' = table_list_defaults(table)
    /\ UNCHANGED <<genvars, tlvars, exprvars, cbvars, savars, depvars, host_column>>

\* `name TEXT PRIMARY KEY` and `list_name TEXT`.
NameColumn == [primary_key |-> TRUE, textual |-> TRUE]
ListNameColumn == [primary_key |-> FALSE, textual |-> TRUE]

\* The columns of a table: `id`, `name`, or `id` and `list_name`.
DefaultsColumnLists == {<<IdColumn>>, <<NameColumn>>, <<IdColumn, ListNameColumn>>}

\* A database: every foreign key lies on a column of its host table, an
\* extension key on a primary key column; a root table extends no table.
InitDefaults ==
    /\ foreign_keys \in Schemas
    /\ extension_keys \in SUBSET foreign_keys
    /\ \E roots \in {r \in SUBSET Tables : Cardinality(r) <= MaxRoots} :
         /\ root_tables = Some(roots)
         /\ \A fk \in extension_keys : fk[1] \notin roots
    /\ columns \in [Tables -> DefaultsColumnLists]
    /\ host_column \in [foreign_keys -> 1..MaxColumns]
    /\ \A fk \in foreign_keys : host_column[fk] <= Len(columns[fk[1]])
    /\ \A fk \in extension_keys : columns[fk[1]][host_column[fk]].primary_key
    /\ classified = None
    /\ decorated = None
    /\ default_decorators = {}
    /\ workspace = None
    /\ synql = DefaultSynQL
    /\ pc = "new"
    /\ dag_iter = {}
    /\ cur_table = None
    /\ root_iter = <<>>
    /\ fs = EmptyFs
    /\ time_tracker = NewTimeTracker
    /\ result = "none"
    /\ IdleCallbacks
    /\ IdleCompiler
    /\ IdleSameAs
    /\ IdleTomlDependency

NextDefaults == GenerateTableListDefaults

SpecDefaults == InitDefaults /\ [][NextDefaults]_vars

-----------------------------------------------------------------------------
(* Claims about the default decorations.                                   *)

\* A table list: one column, textual, the primary key, and a root table
\* references the table.
TableList(t) ==
    /\ Len(columns[t]) = 1
    /\ PrimaryKeyColumns(t) = {1}
    /\ columns[t][1].textual
    /\ ReferencedByRoot(t)

\* The columns of a table that reference a table list.
ListColumns(t) ==
    {host_column[fk] : fk \in {k \in foreign_keys : k[1] = t /\ TableList(k[2])}}

\* C27: the module of a table that extends a root table with a column
\* referencing a table list carries a default decoration for that column
\* seeded with the name of the table; the module of a table none of whose
\* ancestors references a table list carries no default decoration.
C27_DefaultsSeededFromTableLists ==
    decorated # None =>
        LET T == decorated[1]
        IN /\ \A r \in root_tables[1] \cap ancestral_extended_tables(T) :
                \A c \in ListColumns(r) :
                    [column |-> <<r, c>>, value |-> T] \in default_decorators
           /\ (\A a \in ancestral_extended_tables(T) : ListColumns(a) = {})
                 => default_decorators = {}

\* The module of a table that extends a root table with a list column was
\* assembled.
C27_Witness ==
    /\ decorated # None
    /\ \E r \in root_tables[1] \cap ancestral_extended_tables(decorated[1]) :
          ListColumns(r) # {}
    /\ default_decorators # {}

-----------------------------------------------------------------------------
(* Claims about the checks on length(column) and on NOW().                 *)

\* `length(col) OP n`.
IsLengthVersusNumber ==
    /\ check_constraint.kind = "BinaryOp"
    /\ check_constraint.op \in ComparisonOperators
    /\ check_constraint.left.kind = "Function"
    /\ check_constraint.left.name = "length"
    /\ check_constraint.right.kind = "Value"
    /\ check_constraint.right.variant = "Number"

\* `col OP NOW()` with OP one of <, <=.
IsColumnVersusNow ==
    /\ check_constraint.kind = "BinaryOp"
    /\ check_constraint.op \in {"Lt", "LtEq"}
    /\ check_constraint.left.kind = "Identifier"
    /\ check_constraint.right.kind = "Function"
    /\ check_constraint.right.name = "NOW"

\* The column of such a check, what SQL compares, and the error of the arm.
BoundedColumn ==
    IF IsLengthVersusNumber THEN check_constraint.left.arg ELSE check_constraint.left.value
Measured == IF IsLengthVersusNumber THEN Len(Row[BoundedColumn]) ELSE Row[BoundedColumn]
Limit == IF IsLengthVersusNumber THEN NumberOf(check_constraint.right.value) ELSE now
BoundError == IF IsLengthVersusNumber THEN "exceeds_max_length" ELSE "in_the_future"

\* C28, as the claim has it: the validation generated for `length(col) OP n`
\* and for `col OP NOW()`, OP one of <, <=, returns exceeds_max_length
\* (in_the_future) for exactly the values that violate the SQL constraint:
\* `length(col) <= n` accepts a value of length n and rejects one of length
\* n + 1, `col <= NOW()` accepts the current time.
C28_BoundViolationsRejected ==
    (Validated /\ (IsLengthVersusNumber \/ IsColumnVersusNow)) =>
        IF SqlHolds(check_constraint.op, Measured, Limit) THEN Result = Ok
        ELSE Result.kind = "Err" /\ Result.error.name = BoundError

\* C28, as the code has it: the validation returns the error for exactly the
\* values for which the comparison with its direction inverted holds.
C28_InvertedComparisonRejected ==
    (Validated /\ (IsLengthVersusNumber \/ IsColumnVersusNow)) =>
        IF SqlHolds(invert_operator(check_constraint.op), Measured, Limit)
        THEN /\ Result.kind = "Err"
             /\ Result.error.name = BoundError
             /\ Result.error.table = table_name
             /\ Result.error.columns = <<BoundedColumn>>
        ELSE Result = Ok

====
